---------------------------- MODULE Spec2Model ----------------------------
(***************************************************************************)
(* Model of the upload flow of static/js/file-browser.js:                  *)
(* FileBrowser.setupUploadFileModal, FileBrowser.uploadFileWithProgress,   *)
(* FileBrowser.updateProgressUI, FileBrowser.performUpload and the parts   *)
(* of ModalManager they use; of the access-key modal                       *)
(* (FileBrowser.setupAccessKeyModal) and of delete mode                    *)
(* (FileBrowser.setupDeleteMode, FileBrowser.performDelete,                *)
(* ConfirmDialog); of the hidden toggle, the view-hidden modal and the     *)
(* create-folder modal (FileBrowser.setupHiddenToggle,                     *)
(* FileBrowser.setupViewHiddenModal, FileBrowser.setupCreateFolderModal);  *)
(* and of the registries and the delete batch of the server the page       *)
(* talks to.                                                               *)
(*                                                                         *)
(* JavaScript runs every handler and every continuation after an await to  *)
(* completion, so one action is one handler run or one continuation run.   *)
(* Strings are sequences of one-character strings, so that the string      *)
(* operations of the code (trim, replace, split, concatenation) are        *)
(* computed and not assumed.                                               *)
(***************************************************************************)
EXTENDS Integers, Sequences, FiniteSets, TLC

(***************************************************************************)
(* Bounds of the model.                                                    *)
(***************************************************************************)
\* Longest file list a file picker hands over.
MaxFiles == 2

(***************************************************************************)
(* Strings.                                                                *)
(***************************************************************************)
EmptyStr == << >>

\* null: a sequence no string of the model equals, since the characters of a
\* string are one-character strings.  A JavaScript value is falsy when it is
\* null or the empty string.
Null == <<"null">>

Falsy_NullOnly(v) == v = Null

Falsy(v) == v = Null \/ v = EmptyStr

RECURSIVE StripLeading(_, _)
StripLeading(s, c) ==
    IF s # << >> /\ Head(s) = c THEN StripLeading(Tail(s), c) ELSE s

RECURSIVE StripTrailing(_, _)
StripTrailing(s, c) ==
    IF s # << >> /\ s[Len(s)] = c
    THEN StripTrailing(SubSeq(s, 1, Len(s) - 1), c)
    ELSE s

\* String.prototype.trim over the alphabet of the model: blanks at both ends.
Trim(s) == StripTrailing(StripLeading(s, " "), " ")

\* s.replace(/^\/+|\/+$/g, '')
StripSlashes(s) == StripTrailing(StripLeading(s, "/"), "/")

\* s.replace(/\\/g, '/')
BackslashesToSlashes(s) == [k \in 1..Len(s) |-> IF s[k] = "\\" THEN "/" ELSE s[k]]

\* s.split('/')[0]: the text before the first slash, all of s when it has none.
RECURSIVE FirstSegment(_)
FirstSegment(s) ==
    IF s = << >> \/ Head(s) = "/" THEN << >>
    ELSE <<Head(s)>> \o FirstSegment(Tail(s))

\* `${a}/${b}`
JoinPath(a, b) == a \o <<"/">> \o b

(***************************************************************************)
(* Numbers.  A JavaScript Number is an IEEE 754 double: 53 significant     *)
(* bits, round to nearest, ties to even.  A positive double is modelled as *)
(* [sig, exp]: sig its 53 significant bits as five limbs, the leading 1    *)
(* and four limbs of LimbBits bits, most significant first, and exp the    *)
(* power of two of its last bit; zero has the empty sig.  Every            *)
(* intermediate value is exact, and no product leaves 32 bits as long as   *)
(* the integers divided are below 2^17.                                    *)
(***************************************************************************)
LimbBits == 13

LimbBase == 2^LimbBits

Zero == [sig |-> << >>, exp |-> 0]

\* The element of a set of one element.  An intermediate result that is used
\* many times is put in such a set, where it is computed once.
TheOne(S) == CHOOSE v \in S : TRUE

\* The number of bits of n: 0 for 0.
BitLength(n) == CHOOSE k \in 0..31 : n < 2^k /\ (k = 0 \/ n >= 2^(k - 1))

\* Round to nearest, ties to even: m holds the 53 bits kept, round is the bit
\* after them, sticky says whether anything non-zero follows that, and e is
\* the power of two of the last bit kept.
RoundToDouble(m, round, sticky, e) ==
    LET up == round = 1 /\ (sticky \/ (m[5] % 2) = 1)
        n5 == m[5] + 1
        n4 == m[4] + (n5 \div LimbBase)
        n3 == m[3] + (n4 \div LimbBase)
        n2 == m[2] + (n3 \div LimbBase)
        n1 == m[1] + (n2 \div LimbBase)
    IN  IF ~up THEN [sig |-> m, exp |-> e]
        ELSE IF n1 = 1
        THEN [sig |-> <<1, n2 % LimbBase, n3 % LimbBase, n4 % LimbBase, n5 % LimbBase>>,
              exp |-> e]
        ELSE [sig |-> <<1, 0, 0, 0, 0>>, exp |-> e + 1]

\* The long division r / g for 0 <= r < g: n limbs of the quotient, then the
\* remainder they leave.
RECURSIVE LongDivision(_, _, _)
LongDivision(r, g, n) ==
    IF n = 0 THEN <<r>>
    ELSE <<(r * LimbBase) \div g>> \o LongDivision((r * LimbBase) % g, g, n - 1)

\* The integers a > 0 and g > 0 scaled by powers of two so that a / g lies in
\* [1, 2), and the power of two e this takes out of the quotient.
Scaled(a, g) ==
    LET ka == BitLength(a)
        kg == BitLength(g)
        a0 == IF ka < kg THEN a * 2^(kg - ka) ELSE a
        g0 == IF kg < ka THEN g * 2^(ka - kg) ELSE g
        lt == a0 < g0
    IN  [a |-> IF lt THEN 2 * a0 ELSE a0, g |-> g0,
         e |-> ka - kg - (IF lt THEN 1 ELSE 0)]

\* The quotient of the scaled operands s, from the limbs and the remainder q
\* of their long division.
RoundedQuotient(s, q) ==
    RoundToDouble(<<1, q[1], q[2], q[3], q[4]>>,
                  IF 2 * q[5] >= s.g THEN 1 ELSE 0,
                  ((2 * q[5]) % s.g) # 0,
                  s.e - 4 * LimbBits)

\* a / g for integers a >= 0 and g > 0.
NumberDivide(a, g) ==
    IF a = 0 THEN Zero
    ELSE TheOne({ TheOne({ RoundedQuotient(s, q) :
                               q \in { LongDivision(s.a - s.g, s.g, 4) } }) :
                      s \in { Scaled(a, g) } })

\* The limbs of the exact product x * 100: the first one takes the carries.
Times100Limbs(x) ==
    LET p5 == x.sig[5] * 100
        p4 == x.sig[4] * 100 + (p5 \div LimbBase)
        p3 == x.sig[3] * 100 + (p4 \div LimbBase)
        p2 == x.sig[2] * 100 + (p3 \div LimbBase)
        p1 == x.sig[1] * 100 + (p2 \div LimbBase)
    IN  <<p1, p2 % LimbBase, p3 % LimbBase, p4 % LimbBase, p5 % LimbBase>>

\* The limbs l of a product cut back by d bits to 53 bits and rounded; e is
\* the power of two of the last bit of l.
RoundedProduct(l, d, e) ==
    LET cut(k) == (l[k] \div 2^d) + (l[k - 1] % 2^d) * 2^(LimbBits - d)
    IN  RoundToDouble(<<l[1] \div 2^d, cut(2), cut(3), cut(4), cut(5)>>,
                      (l[5] \div 2^(d - 1)) % 2,
                      (l[5] % 2^(d - 1)) # 0,
                      e + d)

\* x * 100 for a Number x.
NumberTimes100(x) ==
    IF x.sig = << >> THEN Zero
    ELSE TheOne({ TheOne({ RoundedProduct(l, d, x.exp) :
                               d \in { BitLength(l[1]) - 1 } }) :
                      l \in { Times100Limbs(x) } })

\* Math.round(x) for a Number 0 <= x < 2^31: the integer part of x plus the
\* first bit behind the binary point, which sends a tie upwards.
MathRound(x) ==
    IF x.sig = << >> THEN 0
    ELSE LET s == 0 - x.exp
             \* the bits of limb k that lie at or above bit position p of sig
             above(k, p) ==
                 LET low == LimbBits * (5 - k)
                 IN  IF low >= p THEN x.sig[k] * 2^(low - p)
                     ELSE IF low + LimbBits > p THEN x.sig[k] \div 2^(p - low)
                     ELSE 0
             from(p) == above(1, p) + above(2, p) + above(3, p) + above(4, p) + above(5, p)
         IN  IF s > 4 * LimbBits + 1 THEN 0
             ELSE from(s) + (from(s - 1) % 2)

(***************************************************************************)
(* FileBrowser.updateProgressUI, line 738.                                 *)
(***************************************************************************)
overallPercent(totalLoaded, grandTotal) ==
    IF grandTotal > 0
    THEN TheOne({ MathRound(product) :
                      product \in { NumberTimes100(ratio) :
                                        ratio \in { NumberDivide(totalLoaded, grandTotal) } } })
    ELSE 0

(***************************************************************************)
(* The values the environment supplies.                                    *)
(***************************************************************************)
\* The files a picker can hand over: name, size in bytes, and the path below
\* the picked folder a directory pick reports.  File b lies in a subfolder,
\* and the name of file c holds a backslash.
FilePool ==
    { [name |-> <<"a">>, size |-> 23, path |-> <<"a">>],
      [name |-> <<"b">>, size |-> 17, path |-> <<"s", "/", "b">>],
      [name |-> <<"t", "\\", "c">>, size |-> 0, path |-> <<"t", "\\", "c">>] }

\* The folder a directory picker is pointed at.
PickedFolder == <<"p">>

\* File lists of one pick: distinct files, at most MaxFiles of them.
RECURSIVE ListsOver(_, _)
ListsOver(pool, n) ==
    IF n = 0 THEN { << >> }
    ELSE { << >> } \cup
         UNION { { <<f>> \o rest : rest \in ListsOver(pool \ {f}, n - 1) } : f \in pool }

PickLists == ListsOver(FilePool, MaxFiles)

\* config.currentPath of the page.
CurrentPath == <<"d">>

\* What the user may type into the fields of the upload form.
KeyInputs == { EmptyStr, <<"k">> }

PasswordInputs == { EmptyStr, <<"x">> }

TargetInputs == { EmptyStr, <<"/", "d", "/">>, <<"/">>, <<" ", "e">> }

\* HTTP statuses a finished upload request may carry.
Statuses == { 199, 200, 299, 300 }

\* How one XMLHttpRequest ends: its load, error or abort event.
Outcomes ==
    { [kind |-> "load", status |-> st] : st \in Statuses }
    \cup { [kind |-> "error", status |-> 0], [kind |-> "abort", status |-> 0] }

\* How fetch('/api/set-path-protection') ends: a response of any status
\* resolves the promise, a network failure rejects it.
FetchOutcomes ==
    { [kind |-> "response", status |-> 200], [kind |-> "response", status |-> 403],
      [kind |-> "rejected", status |-> 0] }

\* The loaded values of the progress events of a file of the given size.
LoadedValues(size) == { 0, size \div 2, size }

NoReport == [label |-> "none", file |-> 0, loaded |-> 0, overallPercent |-> 0]

NoOutcome == [kind |-> "none", status |-> 0]

NoBatch ==
    [files |-> << >>, key |-> EmptyStr, targetPath |-> EmptyStr, isFolderMode |-> FALSE,
     protectFolder |-> FALSE, protectionPwd |-> Null, grandTotal |-> 0,
     folderBasePath |-> Null]

(***************************************************************************)
(* State.                                                                  *)
(***************************************************************************)
VARIABLES
    \* the upload form
    files,                \* uploadFileInput.files
    isFolderMode,         \* uploadModeFolder.checked
    enableProtection,     \* enableProtection.checked
    protectionPassword,   \* protectionPassword.value
    uploadFileKey,        \* uploadFileKey.value
    uploadTargetFolder,   \* uploadTargetFolder.value
    \* the upload modal
    modalActive,          \* uploadFileModal carries the class 'active'
    confirmDisabled,      \* uploadFileConfirmBtn.disabled
    cancelDisabled,       \* uploadFileCancelBtn.disabled
    uploadFileError,      \* which message uploadFileError shows
    progressHidden,       \* uploadProgressContainer carries the class 'hidden'
    \* the running performUpload
    phase,                \* "idle", "transfer", "protect" or "finished"
    batch,                \* the values performUpload fixes before its loop
    i,                    \* the loop index, counted from 1
    successCount,
    failCount,
    totalLoaded,
    reaction,             \* the completion branch taken
    \* requests
    inFlight,             \* the file indices whose XMLHttpRequest is open
    sent,                 \* the upload requests opened by the batch, in order
    xhrLoaded,            \* loaded of the last progress event passed to onProgress
    lastSettled,          \* how the last finished upload request ended
    protectionCalls,      \* the set-path-protection requests of the batch
    protectionOutcome,    \* how the set-path-protection request ended
    warnings,             \* console.warn calls of the batch
    progress,             \* the last updateProgressUI call of the batch
    \* timers
    reloadTimer,          \* setTimeout(() => location.reload(), 1000) is pending
    closeTimer,           \* the setTimeout of line 899 is pending
    \* the access-key modal of setupAccessKeyModal
    accessModalActive,    \* accessKeyModal carries the class 'active'
    targetPathForModal,   \* the closure variable of line 77
    modalKeyInput,        \* modalKeyInput.value
    modalError,           \* which message modalError shows
    modalSubmitDisabled,  \* modalSubmitBtn.disabled
    validatePending,      \* the /validate-key request awaited, if any
    validateOutcome,      \* how the last /validate-key request ended
    location,             \* where the window is, or is navigating to
    \* setupDeleteMode, performDelete and ConfirmDialog
    enteredDeleteKey,     \* the closure variable of line 180
    deleteModalKeyInput,  \* deleteModalKeyInput.value
    deleteModalError,     \* which message deleteModalError shows
    checked,              \* the values of the .delete-checkbox boxes that are checked
    deleteSelectedDisabled, \* deleteSelectedBtn.disabled
    deleteKeyModalActive, \* 'active' in the class list of deleteKeyModal
    confirmModalActive,   \* the same of confirmDeleteModal
    resultModalActive,    \* the same of deleteResultModal
    onConfirm,            \* the itemsToDelete of the handlers ConfirmDialog.show attached last
    deleteRequests,       \* the performDelete calls of this page and their requests
    deleteResultTitle,    \* which title deleteResultTitle shows
    \* the hidden toggle of setupHiddenToggle
    isCurrentPathHidden,  \* config.isCurrentPathHidden of the page shown
    hiddenToggleChecked,  \* hiddenToggle.checked
    hiddenKeyModalActive, \* 'active' in the class list of hiddenKeyModal
    hiddenModalKeyInput,  \* hiddenModalKeyInput.value
    hiddenModalError,     \* which message hiddenModalError shows
    hiddenModalConfirmDisabled, \* hiddenModalConfirmBtn.disabled
    toggleRequests,       \* the /api/toggle-hidden requests awaited
    \* the modal of setupViewHiddenModal
    viewHiddenModalActive, \* 'active' in the class list of viewHiddenModal
    viewHiddenKeyInput,   \* viewHiddenKeyInput.value
    viewHiddenError,      \* which message viewHiddenError shows
    viewHiddenConfirmDisabled, \* viewHiddenConfirmBtn.disabled
    viewHiddenRequests,   \* the /api/toggle-view-hidden requests awaited
    \* the modal of setupCreateFolderModal
    createFolderModalActive, \* 'active' in the class list of createFolderModal
    newFolderName,        \* newFolderName.value
    createFolderKey,      \* createFolderKey.value
    createFolderError,    \* which message createFolderError shows
    enableFolderProtection, \* enableFolderProtection.checked
    folderProtectionPassword, \* folderProtectionPassword.value
    createFolderConfirmDisabled, \* createFolderConfirmBtn.disabled
    createFolderRequests, \* the /api/create-folder requests awaited
    \* the server the page talks to
    protectionEntries,    \* ProtectionRegistry: the key of every path that has an entry
    hiddenSet,            \* VisibilityRegistry: the paths marked hidden
    storage,              \* the paths that exist under the root
    serverBatch,          \* the delete batch DeleteOrchestrator is working on
    reply,                \* what the last operation of the server returned
    \* PathNormalizer
    rawPath,              \* the raw path handed to normalize
    normalized,           \* what normalize made of it
    renormalized,         \* what normalize made of that
    \* the persisted store of a registry and the sessions that write it
    lockHolder,           \* the session that holds the lock of the store, if any
    persistedStore,       \* the persisted file of the registry
    tempFile,             \* the temporary file a writer fills before it replaces the store
    writers,              \* for every session: where its write is, its mutation, its copy
    observed,             \* what the last reader saw
    \* ModalManager, for any modals
    modals,               \* ModalManager.modals: the config of every registered id
    activeClass,          \* the elements that carry the class 'active'
    overlayListeners,     \* how many overlay click listeners register put on each element
    closed,               \* how often the last call invoked the onClose of each id
    lastCall,             \* the last call made, and its id
    \* ConfirmDialog, for any callbacks
    shows,                \* how many times ConfirmDialog.show was called
    latestShow,           \* which callbacks the last show was given
    confirmListeners,     \* the click listeners of the element confirmDeleteConfirmBtn
    cancelListeners,      \* the click listeners of the element confirmDeleteCancelBtn
    dialogActive,         \* confirmDeleteModal carries the class 'active'
    called,               \* the callbacks invoked so far, in order
    lastClick,            \* what was done last to the dialog
    \* the search form of setupSearchForm
    semanticSearchEnabled, \* config.semanticSearchEnabled
    pathname,             \* window.location.pathname
    searchInput,          \* searchInput.value
    smartSearchInput,     \* smartSearchInput.value
    recursiveCheckbox,    \* recursiveCheckbox.checked
    submission            \* the last submit of the form and where it sent the window

formVars == <<files, isFolderMode, enableProtection, protectionPassword,
              uploadFileKey, uploadTargetFolder>>

modalVars == <<modalActive, confirmDisabled, cancelDisabled, uploadFileError,
               progressHidden>>

batchVars == <<phase, batch, i, successCount, failCount, totalLoaded, reaction>>

requestVars == <<inFlight, sent, xhrLoaded, lastSettled, protectionCalls,
                 protectionOutcome, warnings, progress>>

timerVars == <<reloadTimer, closeTimer>>

accessVars == <<accessModalActive, targetPathForModal, modalKeyInput, modalError,
                modalSubmitDisabled, validatePending, validateOutcome,
                location>>

accessRest == <<modalKeyInput, modalError, modalSubmitDisabled, validatePending,
                validateOutcome, location>>

deleteVars == <<enteredDeleteKey, deleteModalKeyInput, deleteModalError, checked,
                deleteSelectedDisabled, deleteKeyModalActive, confirmModalActive,
                resultModalActive, onConfirm, deleteRequests, deleteResultTitle>>

deleteRest == <<enteredDeleteKey, deleteModalKeyInput, deleteModalError, checked,
                deleteSelectedDisabled, onConfirm, deleteRequests, deleteResultTitle>>

\* The state of the upload flow, and the state beyond each part of the page.
uploadVars == <<formVars, modalVars, batchVars, requestVars, timerVars>>

serverVars == <<protectionEntries, hiddenSet, storage, serverBatch, reply>>

normalizerVars == <<rawPath, normalized, renormalized>>

\* The access-key modal without the window's location.
accessModal == <<accessModalActive, targetPathForModal, modalKeyInput, modalError,
                 modalSubmitDisabled, validatePending, validateOutcome>>

hiddenVars == <<isCurrentPathHidden, hiddenToggleChecked, hiddenKeyModalActive,
                hiddenModalKeyInput, hiddenModalError, hiddenModalConfirmDisabled,
                toggleRequests>>

hiddenRest == <<isCurrentPathHidden, hiddenModalKeyInput, hiddenModalError,
                hiddenModalConfirmDisabled, toggleRequests>>

viewHiddenVars == <<viewHiddenModalActive, viewHiddenKeyInput, viewHiddenError,
                    viewHiddenConfirmDisabled, viewHiddenRequests>>

viewHiddenRest == <<viewHiddenKeyInput, viewHiddenError, viewHiddenConfirmDisabled,
                    viewHiddenRequests>>

createFolderVars == <<createFolderModalActive, newFolderName, createFolderKey,
                      createFolderError, enableFolderProtection,
                      folderProtectionPassword, createFolderConfirmDisabled,
                      createFolderRequests>>

createFolderRest == <<newFolderName, createFolderKey, createFolderError,
                      enableFolderProtection, folderProtectionPassword,
                      createFolderConfirmDisabled, createFolderRequests>>

\* The modals that ask for a key before they send their one request.
keyedVars == <<hiddenVars, viewHiddenVars, createFolderVars>>

pageVars == <<uploadVars, accessVars, deleteVars, keyedVars>>

storeVars == <<lockHolder, persistedStore, tempFile, writers, observed>>

\* The state that is not the page's.
managerVars == <<modals, activeClass, overlayListeners, closed, lastCall>>

\* The parts of the page's script that are modelled for themselves.
dialogVars == <<shows, latestShow, confirmListeners, cancelListeners, dialogActive,
                called, lastClick>>

searchVars == <<semanticSearchEnabled, pathname, searchInput, smartSearchInput,
                recursiveCheckbox, submission>>

partsVars == <<managerVars, dialogVars, searchVars>>

apartVars == <<serverVars, normalizerVars, storeVars, partsVars>>

beyondUpload == <<accessVars, deleteVars, keyedVars, apartVars>>

beyondAccess == <<uploadVars, deleteVars, keyedVars, apartVars>>

beyondDelete == <<uploadVars, accessVars, keyedVars, apartVars>>

\* The window's location is written by the hidden toggle and is not part of
\* what lies beyond it.
beyondHidden == <<uploadVars, accessModal, deleteVars, viewHiddenVars,
                  createFolderVars, apartVars>>

beyondViewHidden == <<uploadVars, accessVars, deleteVars, hiddenVars,
                      createFolderVars, apartVars>>

beyondCreateFolder == <<uploadVars, accessVars, deleteVars, hiddenVars,
                        viewHiddenVars, apartVars>>

beyondServer == <<pageVars, normalizerVars, storeVars, partsVars>>

beyondNormalizer == <<pageVars, serverVars, storeVars, partsVars>>

beyondStore == <<pageVars, serverVars, normalizerVars, partsVars>>

beyondManager == <<pageVars, serverVars, normalizerVars, storeVars, dialogVars,
                   searchVars>>

beyondDialog == <<pageVars, serverVars, normalizerVars, storeVars, managerVars,
                  searchVars>>

beyondSearch == <<pageVars, serverVars, normalizerVars, storeVars, managerVars,
                  dialogVars>>

vars == <<pageVars, apartVars>>

\* No request, and the page the window shows.
NoRequest == [path |-> Null, key |-> EmptyStr, stage |-> "none"]

Here == <<"/", "d">>

\* The access-key modal of the page as loaded.
AccessInit ==
    /\ accessModalActive = FALSE
    /\ targetPathForModal = Null
    /\ modalKeyInput = EmptyStr
    /\ modalError = "none"
    /\ modalSubmitDisabled = FALSE
    /\ validatePending = NoRequest
    /\ validateOutcome = NoOutcome
    /\ location = Here

\* location.reload() brings the access-key modal back to that.
AccessReset ==
    /\ accessModalActive' = FALSE
    /\ targetPathForModal' = Null
    /\ modalKeyInput' = EmptyStr
    /\ modalError' = "none"
    /\ modalSubmitDisabled' = FALSE
    /\ validatePending' = NoRequest
    /\ validateOutcome' = NoOutcome
    /\ location' = Here

\* No handler on the buttons of the confirmation dialog: a list of values no
\* click makes.
NoHandler == <<Null>>

\* Delete mode of the page as loaded: no key entered, no box checked, no
\* handler on the buttons of the confirmation dialog.
DeleteInit ==
    /\ enteredDeleteKey = Null
    /\ deleteModalKeyInput = EmptyStr
    /\ deleteModalError = "none"
    /\ checked = {}
    /\ deleteSelectedDisabled = TRUE
    /\ deleteKeyModalActive = FALSE
    /\ confirmModalActive = FALSE
    /\ resultModalActive = FALSE
    /\ onConfirm = NoHandler
    /\ deleteRequests = << >>
    /\ deleteResultTitle = "none"

DeleteReset ==
    /\ enteredDeleteKey' = Null
    /\ deleteModalKeyInput' = EmptyStr
    /\ deleteModalError' = "none"
    /\ checked' = {}
    /\ deleteSelectedDisabled' = TRUE
    /\ deleteKeyModalActive' = FALSE
    /\ confirmModalActive' = FALSE
    /\ resultModalActive' = FALSE
    /\ onConfirm' = NoHandler
    /\ deleteRequests' = << >>
    /\ deleteResultTitle' = "none"

\* A path of the server: its segments, root first.  The paths of the
\* model: a folder, a folder and a file in it, a file in that folder, and a
\* path beside them.
Paths == { <<"a">>, <<"a", "b">>, <<"a", "b", "c">>, <<"a", "d">>, <<"e">> }

NoServerBatch == [items |-> << >>, next |-> 0, successCount |-> 0, failCount |-> 0]

NoReply == [op |-> "none"]

\* The server as started: empty registries, every path of the model present.
ServerInit ==
    /\ protectionEntries = << >>
    /\ hiddenSet = {}
    /\ storage = Paths
    /\ serverBatch = NoServerBatch
    /\ reply = NoReply

\* No result of normalize yet.
NoPath == [ok |-> FALSE, path |-> << >>, error |-> "none"]

NormalizerInit ==
    /\ rawPath = EmptyStr
    /\ normalized = NoPath
    /\ renormalized = NoPath

\* Most client sessions that write the registry at a time.
MaxSessions == 2

Sessions == 1..MaxSessions

NoHolder == 0

\* A file of the store: the entries written, and whether all were written.
FileOf(entries, complete) == [entries |-> entries, complete |-> complete]

Resting == [pc |-> "idle", path |-> << >>, hidden |-> FALSE, copy |-> {}]

\* The store as started: an empty registry on disk, no session writing.
StoreInit ==
    /\ lockHolder = NoHolder
    /\ persistedStore = FileOf({}, TRUE)
    /\ tempFile = FileOf({}, TRUE)
    /\ writers = [s \in Sessions |-> Resting]
    /\ observed = FileOf({}, TRUE)

\* The page as loaded.
\* The three keyed modals of the page as loaded.  The hidden toggle shows
\* the hidden state of the path, the value the onClose of lines 326-331
\* gives it back.
KeyedInit ==
    /\ isCurrentPathHidden = FALSE
    /\ hiddenToggleChecked = isCurrentPathHidden
    /\ hiddenKeyModalActive = FALSE
    /\ hiddenModalKeyInput = EmptyStr
    /\ hiddenModalError = "none"
    /\ hiddenModalConfirmDisabled = FALSE
    /\ toggleRequests = << >>
    /\ viewHiddenModalActive = FALSE
    /\ viewHiddenKeyInput = EmptyStr
    /\ viewHiddenError = "none"
    /\ viewHiddenConfirmDisabled = FALSE
    /\ viewHiddenRequests = << >>
    /\ createFolderModalActive = FALSE
    /\ newFolderName = EmptyStr
    /\ createFolderKey = EmptyStr
    /\ createFolderError = "none"
    /\ enableFolderProtection = FALSE
    /\ folderProtectionPassword = EmptyStr
    /\ createFolderConfirmDisabled = FALSE
    /\ createFolderRequests = << >>

\* The page is loaded anew for a path whose hidden state is hidden: the
\* requests of the page it replaces are gone with it.
KeyedReset(hidden) ==
    /\ isCurrentPathHidden' = hidden
    /\ hiddenToggleChecked' = hidden
    /\ hiddenKeyModalActive' = FALSE
    /\ hiddenModalKeyInput' = EmptyStr
    /\ hiddenModalError' = "none"
    /\ hiddenModalConfirmDisabled' = FALSE
    /\ toggleRequests' = << >>
    /\ viewHiddenModalActive' = FALSE
    /\ viewHiddenKeyInput' = EmptyStr
    /\ viewHiddenError' = "none"
    /\ viewHiddenConfirmDisabled' = FALSE
    /\ viewHiddenRequests' = << >>
    /\ createFolderModalActive' = FALSE
    /\ newFolderName' = EmptyStr
    /\ createFolderKey' = EmptyStr
    /\ createFolderError' = "none"
    /\ enableFolderProtection' = FALSE
    /\ folderProtectionPassword' = EmptyStr
    /\ createFolderConfirmDisabled' = FALSE
    /\ createFolderRequests' = << >>

\* The ids ModalManager is called with: those of two elements of the
\* document, and one no element has.
Elements == { "m1", "m2" }

ModalIds == Elements \cup { "nowhere" }

\* The entry of an id ModalManager.modals has no key for.
NotRegistered == [registered |-> FALSE, onClose |-> FALSE, closeOnEscape |-> FALSE,
                  closeOnOverlay |-> FALSE]

NoCall == [op |-> "none", id |-> "none"]

\* ModalManager as the script defines it, line 927, in a document none of
\* whose modals is active.
ManagerInit ==
    /\ modals = [id \in ModalIds |-> NotRegistered]
    /\ activeClass = {}
    /\ overlayListeners = [id \in Elements |-> 0]
    /\ closed = [id \in ModalIds |-> 0]
    /\ lastCall = NoCall

\* The confirmation dialog of the document as loaded: its buttons have no
\* listener.
DialogInit ==
    /\ shows = 0
    /\ latestShow = [onConfirm |-> FALSE, onCancel |-> FALSE]
    /\ confirmListeners = << >>
    /\ cancelListeners = << >>
    /\ dialogActive = FALSE
    /\ called = << >>
    /\ lastClick = "none"

\* No submit of the search form yet.
NoSubmission == [submitter |-> "none", kind |-> "none"]

\* The search form of the page as loaded, at the root and without semantic
\* search.
SearchInit ==
    /\ semanticSearchEnabled = FALSE
    /\ pathname = <<"/">>
    /\ searchInput = EmptyStr
    /\ smartSearchInput = EmptyStr
    /\ recursiveCheckbox = FALSE
    /\ submission = NoSubmission

Init ==
    /\ ManagerInit
    /\ DialogInit
    /\ SearchInit
    /\ AccessInit
    /\ DeleteInit
    /\ KeyedInit
    /\ ServerInit
    /\ NormalizerInit
    /\ StoreInit
    /\ files = << >>
    /\ isFolderMode = FALSE
    /\ enableProtection = FALSE
    /\ protectionPassword = EmptyStr
    /\ uploadFileKey = EmptyStr
    /\ uploadTargetFolder = EmptyStr
    /\ modalActive = FALSE
    /\ confirmDisabled = FALSE
    /\ cancelDisabled = FALSE
    /\ uploadFileError = "none"
    /\ progressHidden = TRUE
    /\ phase = "idle"
    /\ batch = NoBatch
    /\ i = 0
    /\ successCount = 0
    /\ failCount = 0
    /\ totalLoaded = 0
    /\ reaction = "none"
    /\ inFlight = {}
    /\ sent = << >>
    /\ xhrLoaded = 0
    /\ lastSettled = NoOutcome
    /\ protectionCalls = << >>
    /\ protectionOutcome = NoOutcome
    /\ warnings = 0
    /\ progress = NoReport
    /\ reloadTimer = FALSE
    /\ closeTimer = FALSE

\* The onClose of hiddenKeyModal, lines 326-331: what the checkbox shows
\* once the modal is hidden.
RevertedToggle_Kept(configured, shown) == shown

RevertedToggle(configured, shown) == configured

(***************************************************************************)
(* ModalManager.show and ModalManager.hide for 'uploadFileModal', which    *)
(* is registered without an onClose callback (line 599).                   *)
(***************************************************************************)
ModalShow == modalActive' = TRUE

ModalHide == modalActive' = FALSE

(***************************************************************************)
(* The handlers of setupUploadFileModal.  The form is edited while no      *)
(* performUpload is running: performUpload copies every value of the form  *)
(* it uses into locals before its first await (lines 762-779), and the     *)
(* FileList it holds is the one of the selection made before the click.    *)
(***************************************************************************)
\* phase "finished" is the end of performUpload's last continuation: its
\* locals still hold the result, and nothing else runs before it returns.
NotReturning == phase # "finished"

FormOpen == modalActive /\ phase = "idle"

\* The body of toggleUploadMode for the mode just chosen.
toggleUploadMode(folderMode) ==
    IF folderMode
    THEN UNCHANGED <<enableProtection, protectionPassword>>
    ELSE /\ enableProtection' = FALSE
         /\ protectionPassword' = EmptyStr

\* Click on #upload-file-btn.
OpenUploadModal ==
    /\ NotReturning
    /\ files' = << >>
    /\ uploadFileKey' = EmptyStr
    /\ uploadFileError' = "none"
    /\ isFolderMode' = FALSE
    /\ enableProtection' = FALSE
    /\ protectionPassword' = EmptyStr
    /\ uploadTargetFolder' = CurrentPath
    /\ ModalShow
    /\ UNCHANGED <<confirmDisabled, cancelDisabled, progressHidden>>
    /\ UNCHANGED <<batchVars, requestVars, timerVars>>
    /\ UNCHANGED beyondUpload

\* change on one of the two mode radio buttons.
ChangeUploadMode(folderMode) ==
    /\ FormOpen
    /\ folderMode # isFolderMode
    /\ isFolderMode' = folderMode
    /\ toggleUploadMode(folderMode)
    /\ UNCHANGED <<files, uploadFileKey, uploadTargetFolder>>
    /\ UNCHANGED <<modalVars, batchVars, requestVars, timerVars>>
    /\ UNCHANGED beyondUpload

\* change on #enableProtection, which is shown in folder mode only.
ChangeEnableProtection ==
    /\ FormOpen
    /\ isFolderMode
    /\ enableProtection' = ~enableProtection
    /\ protectionPassword' = IF enableProtection' THEN protectionPassword ELSE EmptyStr
    /\ UNCHANGED <<files, isFolderMode, uploadFileKey, uploadTargetFolder>>
    /\ UNCHANGED <<modalVars, batchVars, requestVars, timerVars>>
    /\ UNCHANGED beyondUpload

\* The picker hands over a list: a directory pick names each file by its path
\* below the picked folder, a file pick leaves webkitRelativePath empty.
SelectFiles(list) ==
    /\ FormOpen
    /\ files' = [k \in 1..Len(list) |->
                    [name |-> list[k].name, size |-> list[k].size,
                     webkitRelativePath |->
                         IF isFolderMode THEN JoinPath(PickedFolder, list[k].path)
                         ELSE EmptyStr]]
    /\ UNCHANGED <<isFolderMode, enableProtection, protectionPassword,
                   uploadFileKey, uploadTargetFolder>>
    /\ UNCHANGED <<modalVars, batchVars, requestVars, timerVars>>
    /\ UNCHANGED beyondUpload

TypeKey(text) ==
    /\ FormOpen
    /\ uploadFileKey' = text
    /\ UNCHANGED <<files, isFolderMode, enableProtection, protectionPassword,
                   uploadTargetFolder>>
    /\ UNCHANGED <<modalVars, batchVars, requestVars, timerVars>>
    /\ UNCHANGED beyondUpload

\* #protectionPasswordContainer is shown while #enableProtection is checked.
TypeProtectionPassword(text) ==
    /\ FormOpen
    /\ enableProtection
    /\ protectionPassword' = text
    /\ UNCHANGED <<files, isFolderMode, enableProtection, uploadFileKey,
                   uploadTargetFolder>>
    /\ UNCHANGED <<modalVars, batchVars, requestVars, timerVars>>
    /\ UNCHANGED beyondUpload

TypeTargetFolder(text) ==
    /\ FormOpen
    /\ uploadTargetFolder' = text
    /\ UNCHANGED <<files, isFolderMode, enableProtection, protectionPassword,
                   uploadFileKey>>
    /\ UNCHANGED <<modalVars, batchVars, requestVars, timerVars>>
    /\ UNCHANGED beyondUpload

\* Click on #uploadFileCancelBtn; a disabled button takes no click.
CancelClick ==
    /\ NotReturning
    /\ modalActive
    /\ ~cancelDisabled
    /\ ModalHide
    /\ UNCHANGED <<confirmDisabled, cancelDisabled, uploadFileError, progressHidden>>
    /\ UNCHANGED <<formVars, batchVars, requestVars, timerVars>>
    /\ UNCHANGED beyondUpload

\* The keydown handler of ModalManager.setupEscapeHandler for the Escape
\* key: every registered modal that is active is hidden and its onClose
\* called; the onClose of accessKeyModal is that of line 100, the onClose
\* of hiddenKeyModal that of lines 326-331.
EscapeKey ==
    /\ NotReturning
    /\ \/ modalActive
       \/ accessModalActive
       \/ deleteKeyModalActive
       \/ confirmModalActive
       \/ resultModalActive
       \/ hiddenKeyModalActive
       \/ viewHiddenModalActive
       \/ createFolderModalActive
    /\ ModalHide
    /\ accessModalActive' = FALSE
    /\ targetPathForModal' = IF accessModalActive THEN Null ELSE targetPathForModal
    /\ deleteKeyModalActive' = FALSE
    /\ confirmModalActive' = FALSE
    /\ resultModalActive' = FALSE
    /\ hiddenKeyModalActive' = FALSE
    /\ hiddenToggleChecked' = IF hiddenKeyModalActive
                              THEN RevertedToggle(isCurrentPathHidden, hiddenToggleChecked)
                              ELSE hiddenToggleChecked
    /\ viewHiddenModalActive' = FALSE
    /\ createFolderModalActive' = FALSE
    /\ UNCHANGED <<hiddenRest, viewHiddenRest, createFolderRest>>
    /\ UNCHANGED <<confirmDisabled, cancelDisabled, uploadFileError, progressHidden>>
    /\ UNCHANGED <<formVars, batchVars, requestVars, timerVars>>
    /\ UNCHANGED accessRest
    /\ UNCHANGED deleteRest
    /\ UNCHANGED apartVars

\* The click handler ModalManager.register puts on the overlay.
OverlayClick ==
    /\ NotReturning
    /\ modalActive
    /\ ModalHide
    /\ UNCHANGED <<confirmDisabled, cancelDisabled, uploadFileError, progressHidden>>
    /\ UNCHANGED <<formVars, batchVars, requestVars, timerVars>>
    /\ UNCHANGED beyondUpload

(***************************************************************************)
(* FileBrowser.uploadFileWithProgress and FileBrowser.performUpload.       *)
(***************************************************************************)
\* Lines 764 and 767.
targetPathOf(value) ==
    StripSlashes(IF Falsy(Trim(value)) THEN CurrentPath ELSE Trim(value))

\* normInitial, line 886.
normInitial == StripSlashes(CurrentPath)

\* Lines 798-801.
RECURSIVE grandTotalOf(_)
grandTotalOf(fs) ==
    IF fs = << >> THEN 0 ELSE Head(fs).size + grandTotalOf(Tail(fs))

\* Lines 806-812.
folderBasePathOf(fs, folderMode, targetPath) ==
    IF folderMode /\ Len(fs) > 0 /\ ~Falsy(fs[1].webkitRelativePath)
    THEN LET firstPath  == BackslashesToSlashes(fs[1].webkitRelativePath)
             folderName == FirstSegment(firstPath)
         IN  IF ~Falsy(targetPath) THEN JoinPath(targetPath, folderName) ELSE folderName
    ELSE Null

\* relPathOf that uploads every file under its bare name: the folders of a
\* directory pick are lost.
relPathOf_NameOnly(file, folderMode, targetPath) ==
    IF ~Falsy(targetPath) THEN JoinPath(targetPath, file.name) ELSE file.name

\* Lines 819-826.
relPathOf(file, folderMode, targetPath) ==
    IF folderMode /\ ~Falsy(file.webkitRelativePath)
    THEN LET relativePath == BackslashesToSlashes(file.webkitRelativePath)
         IN  IF ~Falsy(targetPath) THEN JoinPath(targetPath, relativePath)
             ELSE relativePath
    ELSE IF ~Falsy(targetPath) THEN JoinPath(targetPath, file.name) ELSE file.name

\* The request uploadFileWithProgress opens for file k: lines 718-720.
UploadRequest(b, k) ==
    [file |-> k,
     url  |-> <<"/upload/">> \o relPathOf(b.files[k], b.isFolderMode, b.targetPath),
     key  |-> b.key]

\* IsOk with the upper bound let in.
IsOk_Through300(status) == status >= 200 /\ status <= 300

\* The load handler of uploadFileWithProgress, line 703.
IsOk(status) == status >= 200 /\ status < 300

\* AfterTransfer without the catch of line 855: a rejection counts nowhere.
AfterTransfer_RejectionLost(outcome, sc, fc) ==
    IF outcome.kind = "load"
    THEN IF IsOk(outcome.status)
         THEN [successCount |-> sc + 1, failCount |-> fc]
         ELSE [successCount |-> sc, failCount |-> fc + 1]
    ELSE [successCount |-> sc, failCount |-> fc]

\* Lines 850-857: the awaited promise resolves with ok or not ok on load and
\* rejects on error and abort; the catch counts a rejection as a failure.
AfterTransfer(outcome, sc, fc) ==
    IF outcome.kind = "load"
    THEN IF IsOk(outcome.status)
         THEN [successCount |-> sc + 1, failCount |-> fc]
         ELSE [successCount |-> sc, failCount |-> fc + 1]
    ELSE [successCount |-> sc, failCount |-> fc + 1]

\* LoopCondition that gives up once a file has failed.
LoopCondition_StopsOnFailure(k) == k <= Len(batch.files) /\ failCount' = 0

\* LoopCondition that leaves the last file out.
LoopCondition_SkipsLast(k) == k < Len(batch.files)

\* The loop condition of line 817 for index k, counted from 1.
LoopCondition(k) == k <= Len(batch.files)

\* TransfersStartedAt without the await: the first iteration opens them all.
TransfersStartedAt_NoAwait(k, n) == IF k = 1 THEN [j \in 1..n |-> j] ELSE << >>

\* The transfers opened when the loop reaches file k of n: the await of line
\* 831 lets one iteration open one request.
TransfersStartedAt(k, n) == <<k>>

\* CurrentTotalLoaded without the bytes of the files before.
CurrentTotalLoaded_NoBase(fileStartLoaded, loaded) == loaded

\* Line 837.
CurrentTotalLoaded(fileStartLoaded, loaded) == fileStartLoaded + loaded

\* Line 859.
NextTotalLoaded(loadedSoFar, file) == loadedSoFar + file.size

\* WantsProtection without the test of successCount.
WantsProtection_AnyResult(protectFolder, sc, folderBasePath) ==
    protectFolder /\ ~Falsy(folderBasePath)

\* The condition of line 866.
WantsProtection(protectFolder, sc, folderBasePath) ==
    protectFolder /\ sc > 0 /\ ~Falsy(folderBasePath)

\* ProtectionRequest that reads the form again instead of the values
\* performUpload took at its start.
ProtectionRequest_ReadsFormAgain(b) ==
    [path |-> b.folderBasePath, password |-> protectionPassword, key |-> uploadFileKey]

\* The body of the request of lines 868-876.
ProtectionRequest(b) ==
    [path |-> b.folderBasePath, password |-> b.protectionPwd, key |-> b.key]

\* AfterProtection with a rejected request counted as a failed file.
AfterProtection_CountsRejection(outcome, sc, fc) ==
    [successCount |-> sc, failCount |-> IF outcome.kind = "rejected" THEN fc + 1 ELSE fc]

\* Lines 867-879: neither the response nor the catch touches the counters.
AfterProtection(outcome, sc, fc) == [successCount |-> sc, failCount |-> fc]

\* Lines 877-879: only a rejected fetch reaches the catch and its warning.
WarnsOn(outcome) == outcome.kind = "rejected"

\* CompletionReaction that tests the target folder before the failures.
CompletionReaction_TargetFirst(fc, targetPath) ==
    IF targetPath = normInitial THEN "reload"
    ELSE IF fc = 0 THEN "delayedClose" ELSE "retry"

\* Which branch of lines 885-916 a batch takes.
CompletionReaction(fc, targetPath) ==
    IF fc = 0
    THEN IF targetPath = normInitial THEN "reload" ELSE "delayedClose"
    ELSE "retry"

SeqRange(q) == { q[k] : k \in 1..Len(q) }

\* Lines 882-916, after the counters have their final values.
Completion(sc, fc) ==
    LET r == CompletionReaction(fc, batch.targetPath)
    IN  /\ phase' = "finished"
        /\ reaction' = r
        /\ cancelDisabled' = FALSE
        /\ confirmDisabled' = (r # "retry")
        /\ uploadFileError' =
               CASE r = "reload"       -> "complete"
                 [] r = "delayedClose" -> "successful"
                 [] OTHER              -> "partial"
        /\ reloadTimer' = (reloadTimer \/ r = "reload")
        /\ closeTimer' = (closeTimer \/ r = "delayedClose")
        /\ UNCHANGED <<modalActive, progressHidden>>

FinalReport_FileCount(n, grandTotal) ==
    [label |-> "Complete", file |-> n, loaded |-> grandTotal,
     overallPercent |-> overallPercent(n, grandTotal)]

\* The final updateProgressUI call, line 863.
FinalReport(n, grandTotal) ==
    [label |-> "Complete", file |-> n, loaded |-> grandTotal,
     overallPercent |-> overallPercent(grandTotal, grandTotal)]

\* uploadFileConfirmBtn.disabled of a batch that has passed validation,
\* line 788.
DisabledWhileUploading_No == FALSE

DisabledWhileUploading == TRUE

\* Click on #uploadFileConfirmBtn, or Enter in the key or the password field,
\* which clicks the button unless it is disabled (line 669): performUpload up
\* to its first await.
performUpload ==
    /\ NotReturning
    /\ modalActive
    /\ ~confirmDisabled
    /\ LET key           == uploadFileKey
           targetPath    == targetPathOf(uploadTargetFolder)
           protectFolder == isFolderMode /\ enableProtection
           protectionPwd == IF protectFolder THEN protectionPassword ELSE Null
           b == [files |-> files, key |-> key, targetPath |-> targetPath,
                 isFolderMode |-> isFolderMode, protectFolder |-> protectFolder,
                 protectionPwd |-> protectionPwd,
                 grandTotal |-> grandTotalOf(files),
                 folderBasePath |-> folderBasePathOf(files, isFolderMode, targetPath)]
           first == TransfersStartedAt(1, Len(files))
       IN  IF Len(files) = 0
           THEN /\ uploadFileError' = IF isFolderMode THEN "selectFolder" ELSE "selectFiles"
                /\ UNCHANGED <<modalActive, confirmDisabled, cancelDisabled, progressHidden>>
                /\ UNCHANGED <<batchVars, requestVars, timerVars>>
           ELSE IF Falsy(key)
           THEN /\ uploadFileError' = "passwordRequired"
                /\ UNCHANGED <<modalActive, confirmDisabled, cancelDisabled, progressHidden>>
                /\ UNCHANGED <<batchVars, requestVars, timerVars>>
           ELSE IF protectFolder /\ Falsy(protectionPwd)
           THEN /\ uploadFileError' = "protectionPasswordRequired"
                /\ UNCHANGED <<modalActive, confirmDisabled, cancelDisabled, progressHidden>>
                /\ UNCHANGED <<batchVars, requestVars, timerVars>>
           ELSE /\ confirmDisabled' = DisabledWhileUploading
                /\ cancelDisabled' = TRUE
                /\ uploadFileError' = "none"
                /\ progressHidden' = FALSE
                /\ phase' = "transfer"
                /\ batch' = b
                /\ i' = 1
                /\ successCount' = 0
                /\ failCount' = 0
                /\ totalLoaded' = 0
                /\ reaction' = "none"
                /\ inFlight' = SeqRange(first)
                /\ sent' = [k \in 1..Len(first) |-> UploadRequest(b, first[k])]
                /\ xhrLoaded' = 0
                /\ lastSettled' = NoOutcome
                /\ protectionCalls' = << >>
                /\ protectionOutcome' = NoOutcome
                /\ warnings' = 0
                /\ progress' = NoReport
                /\ UNCHANGED <<modalActive, timerVars>>
    /\ UNCHANGED formVars
    /\ UNCHANGED beyondUpload

\* A progress event of the open upload request (lines 696-700) and, when its
\* length is computable, the callback of lines 835-847; an event whose length
\* is not computable is dropped at line 697.  The loaded values passed on
\* for one request do not decrease and do not exceed the size of its file.
XhrProgress(lengthComputable, loaded) ==
    /\ phase = "transfer"
    /\ i \in inFlight
    /\ loaded >= xhrLoaded
    /\ xhrLoaded' = IF lengthComputable THEN loaded ELSE xhrLoaded
    /\ progress' =
           IF lengthComputable
           THEN [label |-> "file", file |-> i, loaded |-> loaded,
                 overallPercent |->
                     overallPercent(CurrentTotalLoaded(totalLoaded, loaded),
                                    batch.grandTotal)]
           ELSE progress
    /\ progressHidden' = IF lengthComputable THEN FALSE ELSE progressHidden
    /\ UNCHANGED <<modalActive, confirmDisabled, cancelDisabled, uploadFileError>>
    /\ UNCHANGED <<inFlight, sent, lastSettled, protectionCalls, protectionOutcome,
                   warnings>>
    /\ UNCHANGED <<formVars, batchVars, timerVars>>
    /\ UNCHANGED beyondUpload

\* The load, error or abort event of the awaited upload request, and the
\* continuation of performUpload it resumes: lines 850-860, then either the
\* next iteration up to its await, or lines 862-916 up to the await of the
\* protection request or to the end.
XhrSettle(outcome) ==
    /\ phase = "transfer"
    /\ i \in inFlight
    /\ LET counts == AfterTransfer(outcome, successCount, failCount)
           loadedNow == NextTotalLoaded(totalLoaded, batch.files[i])
           next == TransfersStartedAt(i + 1, Len(batch.files))
       IN  /\ lastSettled' = outcome
           /\ successCount' = counts.successCount
           /\ failCount' = counts.failCount
           /\ totalLoaded' = loadedNow
           /\ i' = i + 1
           /\ IF LoopCondition(i + 1)
              THEN /\ inFlight' = (inFlight \ {i}) \cup SeqRange(next)
                   /\ sent' = sent \o [k \in 1..Len(next) |-> UploadRequest(batch, next[k])]
                   /\ xhrLoaded' = 0
                   /\ UNCHANGED <<phase, reaction, progress, protectionCalls>>
                   /\ UNCHANGED <<modalVars, timerVars>>
              ELSE /\ inFlight' = inFlight \ {i}
                   /\ progress' = FinalReport(Len(batch.files), batch.grandTotal)
                   /\ UNCHANGED <<sent, xhrLoaded>>
                   /\ IF WantsProtection(batch.protectFolder, counts.successCount,
                                         batch.folderBasePath)
                      THEN /\ phase' = "protect"
                           /\ protectionCalls' = Append(protectionCalls, ProtectionRequest(batch))
                           /\ progressHidden' = FALSE
                           /\ UNCHANGED <<reaction, modalActive, confirmDisabled,
                                          cancelDisabled, uploadFileError, timerVars>>
                      ELSE /\ Completion(counts.successCount, counts.failCount)
                           /\ UNCHANGED protectionCalls
    /\ UNCHANGED <<batch, protectionOutcome, warnings>>
    /\ UNCHANGED formVars
    /\ UNCHANGED beyondUpload

\* The protection request settles and performUpload resumes: the catch of
\* lines 877-879, then lines 882-916.
ProtectionSettle(outcome) ==
    /\ phase = "protect"
    /\ LET counts == AfterProtection(outcome, successCount, failCount)
       IN  /\ successCount' = counts.successCount
           /\ failCount' = counts.failCount
           /\ Completion(counts.successCount, counts.failCount)
    /\ protectionOutcome' = outcome
    /\ warnings' = IF WarnsOn(outcome) THEN warnings + 1 ELSE warnings
    /\ UNCHANGED <<batch, i, totalLoaded>>
    /\ UNCHANGED <<inFlight, sent, xhrLoaded, lastSettled, protectionCalls, progress>>
    /\ UNCHANGED formVars
    /\ UNCHANGED beyondUpload

\* performUpload returns and its locals are gone.
Return ==
    /\ phase = "finished"
    /\ phase' = "idle"
    /\ batch' = NoBatch
    /\ i' = 0
    /\ successCount' = 0
    /\ failCount' = 0
    /\ totalLoaded' = 0
    /\ reaction' = "none"
    /\ inFlight' = {}
    /\ sent' = << >>
    /\ xhrLoaded' = 0
    /\ lastSettled' = NoOutcome
    /\ protectionCalls' = << >>
    /\ protectionOutcome' = NoOutcome
    /\ warnings' = 0
    /\ progress' = NoReport
    /\ UNCHANGED <<formVars, modalVars, timerVars>>
    /\ UNCHANGED beyondUpload

\* The timer of line 893 fires: location.reload() loads the page anew.
UploadReset ==
    /\ files' = << >>
    /\ isFolderMode' = FALSE
    /\ enableProtection' = FALSE
    /\ protectionPassword' = EmptyStr
    /\ uploadFileKey' = EmptyStr
    /\ uploadTargetFolder' = EmptyStr
    /\ modalActive' = FALSE
    /\ confirmDisabled' = FALSE
    /\ cancelDisabled' = FALSE
    /\ uploadFileError' = "none"
    /\ progressHidden' = TRUE
    /\ phase' = "idle"
    /\ batch' = NoBatch
    /\ i' = 0
    /\ successCount' = 0
    /\ failCount' = 0
    /\ totalLoaded' = 0
    /\ reaction' = "none"
    /\ inFlight' = {}
    /\ sent' = << >>
    /\ xhrLoaded' = 0
    /\ lastSettled' = NoOutcome
    /\ protectionCalls' = << >>
    /\ protectionOutcome' = NoOutcome
    /\ warnings' = 0
    /\ progress' = NoReport
    /\ reloadTimer' = FALSE
    /\ closeTimer' = FALSE

ReloadPage ==
    /\ NotReturning
    /\ reloadTimer
    /\ UploadReset
    /\ AccessReset
    /\ DeleteReset
    /\ KeyedReset(isCurrentPathHidden)
    /\ UNCHANGED apartVars

\* The timer of lines 899-906 fires.
CloseAfterSuccess ==
    /\ NotReturning
    /\ closeTimer
    /\ closeTimer' = FALSE
    /\ ModalHide
    /\ confirmDisabled' = FALSE
    /\ progressHidden' = TRUE
    /\ UNCHANGED <<cancelDisabled, uploadFileError, reloadTimer>>
    /\ UNCHANGED <<formVars, batchVars, requestVars>>
    /\ UNCHANGED beyondUpload

\* The loaded values the open request may report next.
LoadedNow ==
    IF phase = "transfer" /\ i \in 1..Len(batch.files)
    THEN LoadedValues(batch.files[i].size)
    ELSE {}

\* The awaited upload request ends, one way or the other.
TransferSettles == \E outcome \in Outcomes : XhrSettle(outcome)

Next ==
    \/ OpenUploadModal
    \/ \E folderMode \in BOOLEAN : ChangeUploadMode(folderMode)
    \/ ChangeEnableProtection
    \/ \E list \in PickLists : SelectFiles(list)
    \/ \E text \in KeyInputs : TypeKey(text)
    \/ \E text \in PasswordInputs : TypeProtectionPassword(text)
    \/ \E text \in TargetInputs : TypeTargetFolder(text)
    \/ CancelClick
    \/ EscapeKey
    \/ OverlayClick
    \/ performUpload
    \/ \E lengthComputable \in BOOLEAN :
           \E loaded \in LoadedNow : XhrProgress(lengthComputable, loaded)
    \/ TransferSettles
    \/ \E outcome \in FetchOutcomes : ProtectionSettle(outcome)
    \/ Return
    \/ ReloadPage
    \/ CloseAfterSuccess

Spec == Init /\ [][Next]_vars

\* Every upload request ends: the browser delivers its load, error or abort.
FairSpec == Spec /\ WF_vars(TransferSettles)

(***************************************************************************)
(* Properties of an upload batch.                                          *)
(***************************************************************************)
\* The file loop is over: performUpload is past line 860.
LoopDone == phase \in {"protect", "finished"}

C2_ProtectionCallIssued ==
    ( /\ phase = "finished"
      /\ batch.isFolderMode
      /\ batch.protectFolder
      /\ ~Falsy(batch.protectionPwd)
      /\ successCount > 0 )
    => Len(protectionCalls) = 1

\* C3: a set-path-protection call is issued at most once, and only by a
\* folder-mode batch with protection requested and successCount > 0; a batch
\* whose files all failed, and a files-mode batch, issue none.
C3_ProtectionCallOnlyIfWanted ==
    /\ Len(protectionCalls) <= 1
    /\ Len(protectionCalls) > 0 =>
           batch.isFolderMode /\ batch.protectFolder /\ successCount > 0
    /\ (LoopDone /\ successCount = 0) => protectionCalls = << >>
    /\ (LoopDone /\ ~batch.isFolderMode) => protectionCalls = << >>

\* A finished folder-mode batch with protection requested whose files all
\* failed, and no call.
C3_Witness ==
    /\ phase = "finished"
    /\ batch.protectFolder
    /\ batch.folderBasePath # Null
    /\ successCount = 0
    /\ failCount = Len(batch.files)
    /\ protectionCalls = << >>

AttemptedInOrder == \A k \in 1..Len(sent) : sent[k].file = k

C6_OneTransferInFlight ==
    /\ Cardinality(inFlight) <= 1
    /\ inFlight \subseteq {Len(sent)}
    /\ AttemptedInOrder

\* The second file of a batch is in flight, alone.
C6_Witness ==
    /\ phase = "transfer"
    /\ Len(sent) = 2
    /\ inFlight = {2}

\* C7: the transfer that settles is counted as a success exactly when it
\* ends in a load event with a status from 200 to 299, and as a failure
\* otherwise.
C7_SuccessIffStatus2xx ==
    [][ (phase = "transfer" /\ i' = i + 1) =>
            LET o == lastSettled'
                twoHundreds == o.kind = "load" /\ o.status \in 200..299
            IN  IF twoHundreds
                THEN successCount' = successCount + 1 /\ failCount' = failCount
                ELSE successCount' = successCount /\ failCount' = failCount + 1 ]_vars

\* A transfer that ended with status 299 is the success after a first file
\* that failed.
C7_Witness ==
    /\ LoopDone
    /\ lastSettled.kind = "load"
    /\ lastSettled.status = 299
    /\ successCount = 1
    /\ failCount = 1

\* C8: from one report to the progress UI to the next one of the same batch,
\* overallPercent does not decrease.
C8_OverallPercentNonDecreasing ==
    [][ (progress.label # "none" /\ progress'.label # "none") =>
            progress'.overallPercent >= progress.overallPercent ]_vars

\* A progress report of the second file after the first file failed.
C8_Witness ==
    /\ phase = "transfer"
    /\ i = 2
    /\ lastSettled.kind \in {"error", "abort"}
    /\ progress.label = "file"
    /\ progress.file = 2
    /\ progress.overallPercent > 0

\* The sum of the sizes of the files before file k.
RECURSIVE SizesBefore(_, _)
SizesBefore(fs, k) == IF k <= 1 THEN 0 ELSE fs[k - 1].size + SizesBefore(fs, k - 1)

\* 100 * a / g rounded to the nearest integer, halves upwards.
RoundedPercent(a, g) == (200 * a + g) \div (2 * g)

\* C9: the overallPercent of a progress event of file i is
\* round(100 * (B + loaded) / grandTotal), B the sizes of the files before
\* file i and grandTotal those of all files, and 0 when grandTotal is 0.
C9_OverallPercentIsRoundedRatio ==
    progress.label = "file" =>
        LET B == SizesBefore(batch.files, progress.file)
            grandTotal == SizesBefore(batch.files, Len(batch.files) + 1)
        IN  progress.overallPercent =
                IF grandTotal = 0 THEN 0
                ELSE RoundedPercent(B + progress.loaded, grandTotal)

\* C10: when the set-path-protection call settles, successCount and
\* failCount stay as the file loop left them and the reaction is the one
\* these counts and the target folder call for, whatever the outcome.
C10_ProtectionOutcomeIgnored ==
    [][ (phase = "protect" /\ phase' = "finished") =>
            /\ successCount' = successCount
            /\ failCount' = failCount
            /\ (reaction' = "retry") <=> (failCount > 0)
            /\ (reaction' = "reload") <=>
                   (failCount = 0 /\ batch.targetPath = normInitial)
            /\ (reaction' = "delayedClose") <=>
                   (failCount = 0 /\ batch.targetPath # normInitial) ]_vars

\* The protection request failed at the network level and the batch still
\* ended as a full success.
C10_Witness ==
    /\ phase = "finished"
    /\ protectionOutcome.kind = "rejected"
    /\ successCount = Len(batch.files)
    /\ failCount = 0
    /\ reaction \in {"reload", "delayedClose"}

\* The set-path-protection request failed: the fetch was rejected, or the
\* server answered with a status outside 200..299.
ProtectionFailed ==
    \/ protectionOutcome.kind = "rejected"
    \/ protectionOutcome.kind = "response" /\ protectionOutcome.status \notin 200..299

\* C11: a batch whose set-path-protection request failed, at the network
\* level or with an error response, has emitted a warning.
C11_ProtectionFailureWarned ==
    (phase = "finished" /\ ProtectionFailed) => warnings >= 1

\* p is the beginning of s.
IsPrefixOf(p, s) == Len(p) <= Len(s) /\ SubSeq(s, 1, Len(p)) = p

\* root/x, and x alone under the empty root.
Under(root, x) == IF root = << >> THEN x ELSE root \o <<"/">> \o x

\* C12: the set-path-protection request of a batch carries the key of the
\* upload requests of the batch, the protection password the batch started
\* with, and the path targetRoot/pickedFolder (pickedFolder alone under the
\* empty root); every upload request of the batch went to a path below it.
C12_ProtectionRequestMatchesBatch ==
    \A c \in 1..Len(protectionCalls) :
        LET call == protectionCalls[c]
        IN  /\ call.key = batch.key
            /\ \A k \in 1..Len(sent) : sent[k].key = call.key
            /\ call.password = batch.protectionPwd
            /\ call.password # EmptyStr
            /\ call.path = Under(batch.targetPath, PickedFolder)
            /\ Len(sent) = Len(batch.files)
            /\ \A k \in 1..Len(sent) :
                   IsPrefixOf(<<"/upload/">> \o call.path \o <<"/">>, sent[k].url)

\* A protection request for a folder uploaded under the empty target root,
\* sent after the form was reset.
C12_Witness ==
    /\ Len(protectionCalls) = 1
    /\ batch.targetPath = << >>
    /\ protectionCalls[1].path = PickedFolder
    /\ Len(batch.files) = 2
    /\ uploadFileKey = EmptyStr

\* s with every backslash turned into a slash; nothing else changes.
Slashed(s) == [k \in DOMAIN s |-> IF s[k] = "\\" THEN "/" ELSE s[k]]

\* n slashes.
Slashes(n) == [k \in 1..n |-> "/"]

\* root is v without its leading and its trailing slashes.
IsStripped(root, v) ==
    /\ root = << >> \/ (Head(root) # "/" /\ root[Len(root)] # "/")
    /\ \E lead \in 0..Len(v), trail \in 0..Len(v) :
           v = Slashes(lead) \o root \o Slashes(trail)

\* v without the blanks around it.
IsTrimmed(t, v) ==
    /\ t = << >> \/ (Head(t) # " " /\ t[Len(t)] # " ")
    /\ \E lead \in 0..Len(v), trail \in 0..Len(v) :
           v = [k \in 1..lead |-> " "] \o t \o [k \in 1..trail |-> " "]

\* The path a file of the batch is to be uploaded to: in folder mode the
\* relative path it declares, in full, below the target root; in files mode
\* its name below the target root.
DeclaredUploadPath(f) ==
    Under(batch.targetPath,
          IF batch.isFolderMode THEN Slashed(f.webkitRelativePath) ELSE f.name)

TargetIsCurrentFolder == IsStripped(batch.targetPath, CurrentPath)

\* C14: a finished batch has taken exactly one of three reactions.  Without
\* failures and into the current folder, a reload is scheduled; without
\* failures and into another folder, the delayed close is scheduled, which
\* hides the modal and enables the confirm button when it comes; with
\* failures, nothing is scheduled and the confirm button is enabled at once.
\* Finishing itself neither hides the modal nor sends a file again.
C14_OneCompletionReaction ==
    /\ [](phase = "finished" =>
             /\ inFlight = {}
             /\ (failCount = 0 /\ TargetIsCurrentFolder) =>
                    reloadTimer /\ ~closeTimer /\ confirmDisabled
             /\ (failCount = 0 /\ ~TargetIsCurrentFolder) =>
                    closeTimer /\ ~reloadTimer /\ confirmDisabled
             /\ failCount > 0 =>
                    ~reloadTimer /\ ~closeTimer /\ ~confirmDisabled)
    /\ [][ (phase # "finished" /\ phase' = "finished") =>
               modalActive' = modalActive /\ sent' = sent ]_vars
    /\ [][ (closeTimer /\ ~closeTimer') =>
               ~modalActive' /\ ~confirmDisabled' /\ sent' = sent ]_vars

\* A batch into the current folder finished with a failure: the modal is
\* open, the confirm button enabled and nothing is scheduled.
C14_Witness ==
    /\ phase = "finished"
    /\ failCount > 0
    /\ successCount > 0
    /\ TargetIsCurrentFolder
    /\ modalActive
    /\ ~confirmDisabled
    /\ ~reloadTimer
    /\ ~closeTimer

(***************************************************************************)
(* FileBrowser.setupAccessKeyModal: the access-key modal of protected      *)
(* folders.  modalPathLabel and the focus are shown only and read by no    *)
(* handler; they are left out.                                             *)
(***************************************************************************)
\* The href of the folder links of the listing: those inside an
\* li[data-protected="true"], and the others.
ProtectedLinks == { <<"/", "x">>, <<"/", "y">> }

PlainLinks == { <<"/", "z">> }

\* What the user may type into modalKeyInput.
ModalKeyInputs == { EmptyStr, <<"k">>, <<"w">> }

\* How fetch('/validate-key') ends: rejected, or resolved with a response.
\* ok is response.ok; body says what response.json() gives: an object with
\* its status and message, null, or a rejection for a body that is no JSON.
ValidateOutcomes ==
    { [kind |-> "rejected", ok |-> FALSE, body |-> "none", status |-> "", message |-> ""] }
    \cup { [kind |-> "response", ok |-> TRUE, body |-> "object",
            status |-> "success", message |-> ""],
           [kind |-> "response", ok |-> TRUE, body |-> "object",
            status |-> "error", message |-> ""],
           [kind |-> "response", ok |-> FALSE, body |-> "object",
            status |-> "error", message |-> "m"],
           [kind |-> "response", ok |-> FALSE, body |-> "object",
            status |-> "success", message |-> ""],
           [kind |-> "response", ok |-> FALSE, body |-> "unparsable",
            status |-> "", message |-> ""],
           [kind |-> "response", ok |-> TRUE, body |-> "null",
            status |-> "", message |-> ""] }

\* The string an assignment to window.location.href makes of a value.
ToUSVString(v) == IF v = Null THEN <<"n", "u", "l", "l">> ELSE v

\* showModal, lines 79-92.
showModal(targetPath) ==
    /\ targetPathForModal' = targetPath
    /\ modalKeyInput' = EmptyStr
    /\ modalError' = "none"
    /\ accessModalActive' = TRUE

\* hideModal, lines 94-97: ModalManager.hide calls the onClose of line 100.
hideModal ==
    /\ accessModalActive' = FALSE
    /\ targetPathForModal' = Null

\* The click listener of lines 103-113 on a protected folder link: the
\* default action of the link is prevented.
ClickProtectedLink(href) ==
    /\ location = Here
    /\ showModal(href)
    /\ UNCHANGED <<modalSubmitDisabled, validatePending, validateOutcome, location>>
    /\ UNCHANGED beyondAccess

\* The same listener on any other link does nothing, and the browser
\* follows the link.
ClickPlainLink(href) ==
    /\ location = Here
    /\ location' = href
    /\ UNCHANGED <<accessModalActive, targetPathForModal, modalKeyInput, modalError,
                   modalSubmitDisabled, validatePending, validateOutcome>>
    /\ UNCHANGED beyondAccess

TypeModalKey(text) ==
    /\ location = Here
    /\ accessModalActive
    /\ modalKeyInput' = text
    /\ UNCHANGED <<accessModalActive, targetPathForModal, modalError,
                   modalSubmitDisabled, validatePending,
                   validateOutcome, location>>
    /\ UNCHANGED beyondAccess

\* Click on #modalCancelBtn, line 115.
AccessCancelClick ==
    /\ location = Here
    /\ accessModalActive
    /\ hideModal
    /\ UNCHANGED accessRest
    /\ UNCHANGED beyondAccess

\* The overlay click listener ModalManager.register puts on accessKeyModal.
AccessOverlayClick ==
    /\ location = Here
    /\ accessModalActive
    /\ hideModal
    /\ UNCHANGED accessRest
    /\ UNCHANGED beyondAccess

\* The test of line 135.
ValidationPassed_OkIgnored(outcome) == outcome.status = "success"

ValidationPassed(outcome) == outcome.ok /\ outcome.status = "success"

\* The message of line 139: result.message || 'Invalid key.'
RefusalMessage(outcome) == IF outcome.message = "" THEN "invalidKey" ELSE "message"

\* The click listener of modalSubmitBtn, lines 119-131, up to its first
\* await.  A disabled button gets no click.
SubmitHandler ==
    /\ location = Here
    /\ accessModalActive
    /\ ~modalSubmitDisabled
    /\ IF Falsy(targetPathForModal) \/ Falsy(modalKeyInput)
       THEN UNCHANGED <<modalSubmitDisabled, modalError, validatePending>>
       ELSE /\ modalSubmitDisabled' = TRUE
            /\ modalError' = "none"
            /\ validatePending' = [path |-> targetPathForModal, key |-> modalKeyInput,
                                   stage |-> "fetch"]
    /\ UNCHANGED <<accessModalActive, targetPathForModal, modalKeyInput,
                   validateOutcome, location>>
    /\ UNCHANGED beyondAccess

SubmitClick == SubmitHandler

\* The keypress listener of lines 154-161 for the Enter key.
EnterKeypress == SubmitHandler

\* The await of fetch ends, lines 127-133: a rejection goes to catch and
\* finally, a response to response.json().
ValidateSettles(outcome) ==
    /\ location = Here
    /\ validatePending.stage = "fetch"
    /\ validateOutcome' = outcome
    /\ IF outcome.kind = "rejected"
       THEN /\ modalError' = "networkError"
            /\ modalSubmitDisabled' = FALSE
            /\ validatePending' = [validatePending EXCEPT !.stage = "done"]
       ELSE /\ validatePending' = [validatePending EXCEPT !.stage = "json"]
            /\ UNCHANGED <<modalError, modalSubmitDisabled>>
    /\ UNCHANGED <<accessModalActive, targetPathForModal, modalKeyInput, location>>
    /\ UNCHANGED beyondAccess

\* The await of response.json() ends, lines 133-149.  A body that is no
\* JSON rejects, and reading result.status of null throws: both go to catch.
ValidateBodyRead ==
    /\ location = Here
    /\ validatePending.stage = "json"
    /\ validatePending' = [validatePending EXCEPT !.stage = "done"]
    /\ modalSubmitDisabled' = FALSE
    /\ IF validateOutcome.body # "object"
       THEN /\ modalError' = "networkError"
            /\ UNCHANGED <<accessModalActive, targetPathForModal, location>>
       ELSE IF ValidationPassed(validateOutcome)
       THEN /\ hideModal
            /\ location' = ToUSVString(targetPathForModal')
            /\ UNCHANGED modalError
       ELSE /\ modalError' = RefusalMessage(validateOutcome)
            /\ UNCHANGED <<accessModalActive, targetPathForModal, location>>
    /\ UNCHANGED <<modalKeyInput, validateOutcome>>
    /\ UNCHANGED beyondAccess

AccessNext ==
    \/ \E href \in ProtectedLinks : ClickProtectedLink(href)
    \/ \E href \in PlainLinks : ClickPlainLink(href)
    \/ \E text \in ModalKeyInputs : TypeModalKey(text)
    \/ AccessCancelClick
    \/ AccessOverlayClick
    \/ EscapeKey
    \/ SubmitClick
    \/ EnterKeypress
    \/ \E outcome \in ValidateOutcomes : ValidateSettles(outcome)
    \/ ValidateBodyRead

AccessSpec == Init /\ [][AccessNext]_vars

(***************************************************************************)
(* C15                                                                     *)
(***************************************************************************)
\* A /validate-key exchange that ended with an ok response whose body is an
\* object of status "success".
Succeeded(outcome) ==
    /\ outcome.kind = "response"
    /\ outcome.body = "object"
    /\ outcome.ok
    /\ outcome.status = "success"

\* The step that ends a /validate-key exchange.
ValidationEnds == validatePending.stage \in {"fetch", "json"} /\ validatePending'.stage = "done"

\* C15: a click on a protected folder link opens the modal and leaves the
\* window where it is; the window leaves the page, other than by a plain
\* link, only in the step that ends a /validate-key request for a protected
\* folder with an ok response of status "success"; and an exchange that ends
\* in any other way (error response, other status, network error) leaves
\* the window where it is, leaves the modal as it is, and shows a message.
C15_NavigationOnlyAfterValidation ==
    /\ [][ (targetPathForModal' \in ProtectedLinks
               /\ (targetPathForModal' # targetPathForModal \/ ~accessModalActive))
           => (location' = location /\ accessModalActive') ]_vars
    /\ [][ (location' # location /\ location' \notin PlainLinks)
           => (/\ ValidationEnds
               /\ validatePending.path \in ProtectedLinks
               /\ Succeeded(validateOutcome')) ]_vars
    /\ [][ (ValidationEnds /\ ~Succeeded(validateOutcome'))
           => (/\ location' = location
               /\ accessModalActive' = accessModalActive
               /\ modalError' # "none") ]_vars

\* A validation succeeded and the window left the page, and the modal that
\* asked for the key is closed.
C15_Witness ==
    /\ validatePending.stage = "done"
    /\ Succeeded(validateOutcome)
    /\ location # Here
    /\ ~accessModalActive

(***************************************************************************)
(* FileBrowser.setupDeleteMode, FileBrowser.performDelete and              *)
(* ConfirmDialog, for a page whose config.deleteKeyConfigured is set.      *)
(* Which of the controls the style sheet shows is not in the code, so the  *)
(* controls outside a modal can be used at any time; the controls inside   *)
(* a modal can be used while the modal is active.                          *)
(***************************************************************************)
\* Most /api/delete-items requests one page load sends.
MaxDeletes == 1

\* The values of the .delete-checkbox boxes of the listing, in document order.
Checkboxes == << <<"a">>, <<"b">> >>

\* What the user may type into deleteModalKeyInput.
DeleteKeyInputs == { EmptyStr, <<"k">>, <<"w">> }

\* How fetch('/api/delete-items') ends, and what response.json() gives then:
\* a rejection for a body that is no JSON, or an object with fail_count 0
\* or above 0.
DeleteOutcomes == { "rejected", "response" }

DeleteBodies == { "unparsable", "clean", "withErrors" }

\* Array.from(fileListCheckboxes).filter(cb => cb.checked).map(cb => cb.value)
CheckedValues == SelectSeq(Checkboxes, LAMBDA v : v \in checked)

checkAnyCheckboxSelected_Stale == UNCHANGED deleteSelectedDisabled

\* checkAnyCheckboxSelected, lines 200-203.
checkAnyCheckboxSelected == deleteSelectedDisabled' = (checked' = {})

\* Click on #delete-mode-btn, line 206.
DeleteModeClick ==
    /\ deleteKeyModalActive' = TRUE
    /\ UNCHANGED <<confirmModalActive, resultModalActive>>
    /\ UNCHANGED deleteRest
    /\ UNCHANGED beyondDelete

\* Click on #deleteModalCancelBtn, line 210, or on the overlay of the modal.
DeleteKeyModalClose ==
    /\ deleteKeyModalActive
    /\ deleteKeyModalActive' = FALSE
    /\ UNCHANGED <<confirmModalActive, resultModalActive>>
    /\ UNCHANGED deleteRest
    /\ UNCHANGED beyondDelete

TypeDeleteKey(text) ==
    /\ deleteKeyModalActive
    /\ deleteModalKeyInput' = text
    /\ UNCHANGED <<enteredDeleteKey, deleteModalError, checked, deleteSelectedDisabled,
                   deleteKeyModalActive, confirmModalActive, resultModalActive,
                   onConfirm, deleteRequests, deleteResultTitle>>
    /\ UNCHANGED beyondDelete

\* Click on #deleteModalSubmitBtn, lines 214-224, with enterDeleteMode,
\* lines 187-192; the Enter key in the input clicks the button, lines 227-234.
DeleteKeySubmit ==
    /\ deleteKeyModalActive
    /\ IF ~Falsy(deleteModalKeyInput) /\ Len(deleteModalKeyInput) > 0
       THEN /\ enteredDeleteKey' = deleteModalKeyInput
            /\ deleteKeyModalActive' = FALSE
            /\ deleteModalError' = "none"
            /\ UNCHANGED checked
            /\ checkAnyCheckboxSelected
       ELSE /\ deleteModalError' = "keyEmpty"
            /\ UNCHANGED <<enteredDeleteKey, deleteKeyModalActive, checked,
                           deleteSelectedDisabled>>
    /\ UNCHANGED <<deleteModalKeyInput, confirmModalActive, resultModalActive,
                   onConfirm, deleteRequests, deleteResultTitle>>
    /\ UNCHANGED beyondDelete

\* exitDeleteMode, lines 194-198: click on #cancel-delete-mode-btn.  Setting
\* cb.checked from a script fires no change event.
exitDeleteMode ==
    /\ enteredDeleteKey' = Null
    /\ checked' = {}
    /\ UNCHANGED <<deleteModalKeyInput, deleteModalError, deleteSelectedDisabled,
                   deleteKeyModalActive, confirmModalActive, resultModalActive,
                   onConfirm, deleteRequests, deleteResultTitle>>
    /\ UNCHANGED beyondDelete

\* The user toggles a box: the change listener of lines 240-242.
ToggleCheckbox(value) ==
    /\ checked' = IF value \in checked THEN checked \ {value} ELSE checked \cup {value}
    /\ checkAnyCheckboxSelected
    /\ UNCHANGED <<enteredDeleteKey, deleteModalKeyInput, deleteModalError,
                   deleteKeyModalActive, confirmModalActive, resultModalActive,
                   onConfirm, deleteRequests, deleteResultTitle>>
    /\ UNCHANGED beyondDelete

\* Whether the click listener of lines 245-257 gets as far as
\* ConfirmDialog.show.
AsksToConfirm_AnyKey(items, key) == Len(items) # 0

AsksToConfirm(items, key) == Len(items) # 0 /\ ~Falsy(key)

\* Click on #delete-selected-btn, lines 245-257, with ConfirmDialog.show,
\* lines 1001-1028: the handlers of the two buttons are replaced by handlers
\* that hold the items of this click.  A disabled button gets no click.
DeleteSelectedClick ==
    /\ ~deleteSelectedDisabled
    /\ IF AsksToConfirm(CheckedValues, enteredDeleteKey)
       THEN /\ onConfirm' = CheckedValues
            /\ confirmModalActive' = TRUE
       ELSE UNCHANGED <<onConfirm, confirmModalActive>>
    /\ UNCHANGED <<enteredDeleteKey, deleteModalKeyInput, deleteModalError, checked,
                   deleteSelectedDisabled, deleteKeyModalActive, resultModalActive,
                   deleteRequests, deleteResultTitle>>
    /\ UNCHANGED beyondDelete

\* The value of the X-Delete-Key header for a key: a header value is a
\* string, and null becomes "null".
HeaderValue(key) == ToUSVString(key)

\* A performDelete that has returned: nothing holds its arguments any more.
Returned == [items |-> << >>, key |-> EmptyStr, stage |-> "done"]

\* The request of performDelete, lines 276-283.
DeleteRequest_ReadsBoxes(items, key) ==
    [items |-> CheckedValues, key |-> HeaderValue(key), stage |-> "fetch"]

DeleteRequest(items, key) ==
    [items |-> items, key |-> HeaderValue(key), stage |-> "fetch"]

\* Click on the confirm button of the dialog, lines 1017-1020: the dialog is
\* hidden and onConfirm runs performDelete up to its first await.  The key
\* is read when the button is clicked, line 255.
ConfirmClick ==
    /\ confirmModalActive
    /\ onConfirm # NoHandler
    /\ Len(deleteRequests) < MaxDeletes
    /\ confirmModalActive' = FALSE
    /\ deleteRequests' = Append(deleteRequests, DeleteRequest(onConfirm, enteredDeleteKey))
    /\ UNCHANGED <<enteredDeleteKey, deleteModalKeyInput, deleteModalError, checked,
                   deleteSelectedDisabled, deleteKeyModalActive, resultModalActive,
                   onConfirm, deleteResultTitle>>
    /\ UNCHANGED beyondDelete

\* Click on the cancel button of the dialog, lines 1022-1025 (no onCancel is
\* given), or on the overlay of the dialog.
ConfirmCancelClick ==
    /\ confirmModalActive
    /\ confirmModalActive' = FALSE
    /\ UNCHANGED <<deleteKeyModalActive, resultModalActive>>
    /\ UNCHANGED deleteRest
    /\ UNCHANGED beyondDelete

\* The await of fetch of request k ends, lines 276-285: a rejection goes to
\* catch, lines 304-308.
DeleteSettles(k, outcome) ==
    /\ k \in 1..Len(deleteRequests)
    /\ deleteRequests[k].stage = "fetch"
    /\ IF outcome = "rejected"
       THEN /\ deleteRequests' = [deleteRequests EXCEPT ![k] = Returned]
            /\ deleteResultTitle' = "Deletion Error"
            /\ resultModalActive' = TRUE
       ELSE /\ deleteRequests' = [deleteRequests EXCEPT ![k].stage = "json"]
            /\ UNCHANGED <<deleteResultTitle, resultModalActive>>
    /\ UNCHANGED <<enteredDeleteKey, deleteModalKeyInput, deleteModalError, checked,
                   deleteSelectedDisabled, deleteKeyModalActive, confirmModalActive,
                   onConfirm>>
    /\ UNCHANGED beyondDelete

\* The await of response.json() of request k ends, lines 285-308.
DeleteBodyRead(k, body) ==
    /\ k \in 1..Len(deleteRequests)
    /\ deleteRequests[k].stage = "json"
    /\ deleteRequests' = [deleteRequests EXCEPT ![k] = Returned]
    /\ deleteResultTitle' =
           CASE body = "unparsable" -> "Deletion Error"
             [] body = "withErrors" -> "Deletion Complete (with errors)"
             [] OTHER -> "Deletion Successful"
    /\ resultModalActive' = TRUE
    /\ UNCHANGED <<enteredDeleteKey, deleteModalKeyInput, deleteModalError, checked,
                   deleteSelectedDisabled, deleteKeyModalActive, confirmModalActive,
                   onConfirm>>
    /\ UNCHANGED beyondDelete

\* The overlay of deleteResultModal is clicked: the modal is hidden.
ResultOverlayClick ==
    /\ resultModalActive
    /\ resultModalActive' = FALSE
    /\ UNCHANGED <<deleteKeyModalActive, confirmModalActive>>
    /\ UNCHANGED deleteRest
    /\ UNCHANGED beyondDelete

\* Click on #deleteResultCloseBtn, lines 260-265: location.reload().
DeleteResultClose ==
    /\ resultModalActive
    /\ DeleteReset
    /\ UploadReset
    /\ AccessReset
    /\ KeyedReset(isCurrentPathHidden)
    /\ UNCHANGED apartVars

DeleteNext ==
    \/ DeleteModeClick
    \/ DeleteKeyModalClose
    \/ \E text \in DeleteKeyInputs : TypeDeleteKey(text)
    \/ DeleteKeySubmit
    \/ exitDeleteMode
    \/ \E k \in 1..Len(Checkboxes) : ToggleCheckbox(Checkboxes[k])
    \/ DeleteSelectedClick
    \/ ConfirmClick
    \/ ConfirmCancelClick
    \/ EscapeKey
    \/ \E k \in 1..MaxDeletes, outcome \in DeleteOutcomes : DeleteSettles(k, outcome)
    \/ \E k \in 1..MaxDeletes, body \in DeleteBodies : DeleteBodyRead(k, body)
    \/ ResultOverlayClick
    \/ DeleteResultClose

DeleteSpec == Init /\ [][DeleteNext]_vars

(***************************************************************************)
(* C16                                                                     *)
(***************************************************************************)
\* The step sends a /api/delete-items request.
DeleteRequestSent == Len(deleteRequests') > Len(deleteRequests)

\* C16: the confirmation dialog is opened only with a non-empty delete key
\* entered and at least one box checked, and the handlers it attaches hold
\* the values of the boxes checked at that moment; a /api/delete-items
\* request is sent only by the step that confirms an open dialog, and
\* carries exactly those values; so a dialog closed in any other way sends
\* nothing until it is opened and confirmed again.
C16_DeleteOnlyAfterConfirmation ==
    /\ [](confirmModalActive => (onConfirm # NoHandler /\ Len(onConfirm) > 0))
    /\ [][ (onConfirm' # onConfirm /\ onConfirm' # NoHandler)
           => (/\ ~Falsy(enteredDeleteKey)
               /\ Len(enteredDeleteKey) > 0
               /\ checked # {}
               /\ onConfirm' = CheckedValues
               /\ confirmModalActive') ]_vars
    /\ [][ DeleteRequestSent
           => (/\ Len(deleteRequests') = Len(deleteRequests) + 1
               /\ confirmModalActive /\ ~confirmModalActive'
               /\ deleteRequests'[Len(deleteRequests')].items = onConfirm
               /\ onConfirm # NoHandler
               /\ Len(onConfirm) > 0) ]_vars
    /\ [][ (~DeleteRequestSent /\ Len(deleteRequests') > 0)
           => \A k \in 1..Len(deleteRequests') :
                  deleteRequests'[k].stage = "fetch" => deleteRequests'[k] = deleteRequests[k] ]_vars

\* A request is in flight for the items of the dialog, after a box was
\* toggled while the dialog was open.
C16_Witness ==
    \E k \in 1..Len(deleteRequests) :
        /\ deleteRequests[k].stage = "fetch"
        /\ Len(deleteRequests[k].items) > 0
        /\ deleteRequests[k].items # CheckedValues
        /\ deleteRequests[k].items = onConfirm
        /\ ~Falsy(enteredDeleteKey)

(***************************************************************************)
(* The server.  Its code is not among the sources: ProtectionRegistry,     *)
(* AccessValidator, DeleteOrchestrator and VisibilityRegistry are modelled *)
(* from their specification (sections 3, 4.2, 4.3, 4.4, 4.6 and 9).       *)
(***************************************************************************)
\* The keys of the model.
ServerKeys == { <<"k">>, <<"w">> }

\* The parent of a path: the root, << >>, for a path of one segment.
Parent(p) == SubSeq(p, 1, Len(p) - 1)

\* ProtectionRegistry.isProtected: the walk from the path towards the root
\* that stops at the first path with an entry.
RECURSIVE isProtected_RootFirst(_, _)
isProtected_RootFirst(entries, p) ==
    IF p = << >> THEN Null
    ELSE IF isProtected_RootFirst(entries, Parent(p)) # Null
    THEN isProtected_RootFirst(entries, Parent(p))
    ELSE IF p \in DOMAIN entries THEN entries[p]
    ELSE Null

RECURSIVE isProtected(_, _)
isProtected(entries, p) ==
    IF p = << >> THEN Null
    ELSE IF p \in DOMAIN entries THEN entries[p]
    ELSE isProtected(entries, Parent(p))

\* ProtectionRegistry.setProtection: the entry of the path is inserted or
\* overwritten once the durable write is confirmed, and nothing changes
\* when that write fails.
setProtection(path, key, written) ==
    /\ serverBatch = NoServerBatch
    /\ IF written
       THEN /\ protectionEntries' =
                   [q \in DOMAIN protectionEntries \cup {path} |->
                        IF q = path THEN key ELSE protectionEntries[q]]
            /\ reply' = [op |-> "setProtection", path |-> path, result |-> "ok"]
       ELSE /\ UNCHANGED protectionEntries
            /\ reply' = [op |-> "setProtection", path |-> path, result |-> "PersistError"]
    /\ UNCHANGED <<hiddenSet, storage, serverBatch>>
    /\ UNCHANGED beyondServer

\* A caller asks isProtected.
AskIsProtected(p) ==
    /\ serverBatch = NoServerBatch
    /\ reply' = [op |-> "isProtected", path |-> p,
                 result |-> isProtected(protectionEntries, p)]
    /\ UNCHANGED <<protectionEntries, hiddenSet, storage, serverBatch>>
    /\ UNCHANGED beyondServer

\* AccessValidator.validate, section 4.4.
validate_KeyOfPathOnly(entries, p, suppliedKey) ==
    IF p \notin DOMAIN entries THEN "Granted"
    ELSE IF suppliedKey = entries[p] THEN "Granted" ELSE "Denied"

validate(entries, p, suppliedKey) ==
    LET requiredKey == isProtected(entries, p)
    IN  IF requiredKey = Null THEN "Granted"
        ELSE IF suppliedKey = requiredKey THEN "Granted" ELSE "Denied"

\* A caller asks validate.
AskValidate(p, suppliedKey) ==
    /\ serverBatch = NoServerBatch
    /\ reply' = [op |-> "validate", path |-> p, key |-> suppliedKey,
                 result |-> validate(protectionEntries, p, suppliedKey)]
    /\ UNCHANGED <<protectionEntries, hiddenSet, storage, serverBatch>>
    /\ UNCHANGED beyondServer

ProtectionNext ==
    \/ \E path \in Paths, key \in ServerKeys, written \in BOOLEAN :
           setProtection(path, key, written)
    \/ \E p \in Paths : AskIsProtected(p)
    \/ \E p \in Paths, suppliedKey \in ServerKeys : AskValidate(p, suppliedKey)

ProtectionSpec == Init /\ [][ProtectionNext]_vars

(***************************************************************************)
(* C17                                                                     *)
(***************************************************************************)
\* q is p or an ancestor of p.
IsAncestorOrSelf(q, p) == Len(q) <= Len(p) /\ SubSeq(p, 1, Len(q)) = q

\* The paths with an entry that are p or an ancestor of p.
Protecting(p) == { q \in DOMAIN protectionEntries : IsAncestorOrSelf(q, p) }

\* The longest of them.
NearestProtecting(p) ==
    CHOOSE q \in Protecting(p) : \A r \in Protecting(p) : Len(r) <= Len(q)

\* C17: what isProtected(p) returned is the key of the longest prefix of p,
\* p included, that has an entry, and none when no prefix of p has one.
C17_NearestAncestorGoverns ==
    reply.op = "isProtected" =>
        IF Protecting(reply.path) = {}
        THEN reply.result = Null
        ELSE reply.result = protectionEntries[NearestProtecting(reply.path)]

\* isProtected answered for a path under two entries of different keys, and
\* the key is that of the deeper one.
C17_Witness ==
    /\ reply.op = "isProtected"
    /\ \E q, r \in Protecting(reply.path) :
           /\ Len(q) < Len(r)
           /\ protectionEntries[q] # protectionEntries[r]
           /\ reply.result = protectionEntries[r]

(***************************************************************************)
(* C18                                                                     *)
(***************************************************************************)
\* C18: validate(p, key) is Granted for every key when neither p nor an
\* ancestor of p has an entry, and otherwise is Granted exactly when the
\* supplied key is the key of the nearest protecting ancestor.
C18_GrantedIffNearestKey ==
    reply.op = "validate" =>
        /\ reply.result \in {"Granted", "Denied"}
        /\ IF Protecting(reply.path) = {}
           THEN reply.result = "Granted"
           ELSE reply.result = "Granted"
                    <=> reply.key = protectionEntries[NearestProtecting(reply.path)]

\* validate denied the key of an ancestor's entry, for a path whose nearest
\* entry has another key.
C18_Witness ==
    /\ reply.op = "validate"
    /\ reply.result = "Denied"
    /\ \E q \in Protecting(reply.path) : protectionEntries[q] = reply.key

(***************************************************************************)
(* DeleteOrchestrator, section 4.6: the key is validated once, then the    *)
(* removal of each path is attempted, one path a step.                     *)
(***************************************************************************)
\* The global delete key of the configuration.
DeleteKey == <<"k">>

\* Longest list of paths of a delete batch.
MaxBatch == 2

\* The delete batches of the model: non-empty lists of paths.
Batches == UNION { [1..n -> Paths] : n \in 1..MaxBatch }

\* The validation of the delete key.
KeyMatches_Always(key) == TRUE

KeyMatches(key) == key = DeleteKey

\* A delete request arrives: a wrong key fails the whole batch, a right one
\* starts the removals.
DeleteBegin(items, key) ==
    /\ serverBatch = NoServerBatch
    /\ IF KeyMatches(key)
       THEN /\ serverBatch' = [items |-> items, next |-> 1, successCount |-> 0,
                               failCount |-> 0]
            /\ reply' = [op |-> "delete", key |-> key, result |-> "running",
                         successCount |-> 0, failCount |-> 0]
       ELSE /\ UNCHANGED serverBatch
            /\ reply' = [op |-> "delete", key |-> key, result |-> "Denied",
                         successCount |-> 0, failCount |-> 0]
    /\ UNCHANGED <<protectionEntries, hiddenSet, storage>>
    /\ UNCHANGED beyondServer

\* The removal of the next path of the batch is attempted: a path that
\* exists is removed with everything under it, unless the removal fails; a
\* path that does not exist fails.  The batch goes on in either case.
RemoveNext(removable) ==
    /\ serverBatch # NoServerBatch
    /\ serverBatch.next <= Len(serverBatch.items)
    /\ LET path == serverBatch.items[serverBatch.next]
       IN  IF path \in storage /\ removable
           THEN /\ storage' = { q \in storage : ~(Len(path) <= Len(q)
                                                   /\ SubSeq(q, 1, Len(path)) = path) }
                /\ serverBatch' = [serverBatch EXCEPT !.next = @ + 1,
                                                      !.successCount = @ + 1]
           ELSE /\ UNCHANGED storage
                /\ serverBatch' = [serverBatch EXCEPT !.next = @ + 1,
                                                      !.failCount = @ + 1]
    /\ UNCHANGED <<protectionEntries, hiddenSet, reply>>
    /\ UNCHANGED beyondServer

\* Every path of the batch was attempted: the counts are returned.
DeleteEnd ==
    /\ serverBatch # NoServerBatch
    /\ serverBatch.next > Len(serverBatch.items)
    /\ reply' = [reply EXCEPT !.result = "done",
                              !.successCount = serverBatch.successCount,
                              !.failCount = serverBatch.failCount]
    /\ serverBatch' = NoServerBatch
    /\ UNCHANGED <<protectionEntries, hiddenSet, storage>>
    /\ UNCHANGED beyondServer

DeleteServerNext ==
    \/ \E items \in Batches, key \in ServerKeys : DeleteBegin(items, key)
    \/ \E removable \in BOOLEAN : RemoveNext(removable)
    \/ DeleteEnd

DeleteServerSpec == Init /\ [][DeleteServerNext]_vars

(***************************************************************************)
(* C19                                                                     *)
(***************************************************************************)
\* C19: the reply to a delete batch with a wrong key is a denial with
\* successCount 0, given without a batch being started; the step that
\* gives it leaves the storage as it is; and the storage changes only in a
\* step of a batch whose key was found right before its first removal.
C19_WrongKeyRemovesNothing ==
    /\ []((reply.op = "delete" /\ reply.key # DeleteKey)
          => (/\ reply.result = "Denied"
              /\ reply.successCount = 0
              /\ serverBatch = NoServerBatch))
    /\ [][ (reply' # reply /\ reply'.op = "delete" /\ reply'.key # DeleteKey)
           => (storage' = storage /\ serverBatch' = serverBatch) ]_vars
    /\ [][ storage' # storage
           => (/\ reply.op = "delete"
               /\ reply.key = DeleteKey
               /\ reply.result = "running"
               /\ serverBatch.next \in 1..Len(serverBatch.items)
               /\ reply' = reply) ]_vars

\* A batch with a wrong key was denied while paths that an earlier batch
\* left are still there.
C19_Witness ==
    /\ reply.op = "delete"
    /\ reply.key # DeleteKey
    /\ reply.result = "Denied"
    /\ storage # Paths
    /\ storage # {}

(***************************************************************************)
(* VisibilityRegistry, sections 3 and 4.3.                                 *)
(***************************************************************************)
\* VisibilityRegistry.isHidden: the walk from the path towards the root
\* that stops at the first path of the set.
isHidden_ExactOnly(set, p) == p \in set

RECURSIVE isHidden(_, _)
isHidden(set, p) ==
    IF p = << >> THEN FALSE
    ELSE IF p \in set THEN TRUE
    ELSE isHidden(set, Parent(p))

\* VisibilityRegistry.setHidden: the entry of the path is created, or removed
\* with the opposite flag.
setHidden(path, hidden) ==
    /\ serverBatch = NoServerBatch
    /\ hiddenSet' = IF hidden THEN hiddenSet \cup {path} ELSE hiddenSet \ {path}
    /\ reply' = [op |-> "setHidden", path |-> path, hidden |-> hidden]
    /\ UNCHANGED <<protectionEntries, storage, serverBatch>>
    /\ UNCHANGED beyondServer

\* A caller asks isHidden.
AskIsHidden(p) ==
    /\ serverBatch = NoServerBatch
    /\ reply' = [op |-> "isHidden", path |-> p, result |-> isHidden(hiddenSet, p)]
    /\ UNCHANGED <<protectionEntries, hiddenSet, storage, serverBatch>>
    /\ UNCHANGED beyondServer

VisibilityNext ==
    \/ \E path \in Paths, hidden \in BOOLEAN : setHidden(path, hidden)
    \/ \E p \in Paths : AskIsHidden(p)

VisibilitySpec == Init /\ [][VisibilityNext]_vars

(***************************************************************************)
(* C20                                                                     *)
(***************************************************************************)
\* p or an ancestor of p is in the set.
UnderHidden(set, p) == \E q \in set : IsAncestorOrSelf(q, p)

\* C20: what isHidden(p) returned is whether p or an ancestor of p is in the
\* hidden set; after setHidden(q, true) isHidden holds of q and of every
\* path under q; and setHidden(q, false) takes q out of the set and nothing
\* else, so that isHidden changes for no path outside q and what is under it.
C20_HiddenIffAncestorInSet ==
    /\ [](reply.op = "isHidden" => (reply.result <=> UnderHidden(hiddenSet, reply.path)))
    /\ []((reply.op = "setHidden" /\ reply.hidden)
          => \A d \in Paths :
                 IsAncestorOrSelf(reply.path, d) => isHidden(hiddenSet, d))
    /\ [][ (reply' # reply /\ reply'.op = "setHidden" /\ ~reply'.hidden)
           => (/\ hiddenSet' = hiddenSet \ {reply'.path}
               /\ \A d \in Paths :
                      isHidden(hiddenSet', d) =
                          UnderHidden(hiddenSet \ {reply'.path}, d)) ]_vars

\* isHidden answered true for a path that is not in the set itself, after
\* the entry of another path was removed.
C20_Witness ==
    /\ reply.op = "isHidden"
    /\ reply.result
    /\ reply.path \notin hiddenSet
    /\ \E q \in hiddenSet : Len(q) < Len(reply.path) /\ IsAncestorOrSelf(q, reply.path)

(***************************************************************************)
(* PathNormalizer, section 4.1, modelled from its specification: the       *)
(* backslashes become slashes, the path is split on '/', the empty         *)
(* segments are dropped and, a Path having no '.' segment (section 3), so  *)
(* are the '.' segments; a '..' segment takes the segment before it away   *)
(* and fails when there is none; a path with a null byte fails.            *)
(***************************************************************************)
\* Longest raw path of the model.
MaxPathLen == 6

\* The characters of a raw path: a letter, the dot, the two separators and
\* the null byte.
PathChars == { "a", ".", "/", "\\", "NUL" }

RawPaths == UNION { [1..n -> PathChars] : n \in 0..MaxPathLen }

InvalidPath == [ok |-> FALSE, path |-> << >>, error |-> "InvalidPath"]

\* s.split('/')
RECURSIVE Split(_)
Split(s) ==
    IF \A k \in 1..Len(s) : s[k] # "/" THEN <<s>>
    ELSE <<FirstSegment(s)>> \o Split(SubSeq(s, Len(FirstSegment(s)) + 2, Len(s)))

\* The segments joined by '/'.
RECURSIVE Joined(_)
Joined(segments) ==
    IF segments = << >> THEN << >>
    ELSE IF Len(segments) = 1 THEN segments[1]
    ELSE JoinPath(segments[1], Joined(Tail(segments)))

DotDot == <<".", ".">>

\* The segments left of todo resolved onto the segments kept so far.
RECURSIVE Resolved_DotDotAtRootDropped(_, _)
Resolved_DotDotAtRootDropped(kept, todo) ==
    IF todo = << >> THEN [ok |-> TRUE, path |-> Joined(kept), error |-> "none"]
    ELSE IF Head(todo) = << >> \/ Head(todo) = <<".">>
    THEN Resolved_DotDotAtRootDropped(kept, Tail(todo))
    ELSE IF Head(todo) = DotDot
    THEN IF kept = << >> THEN Resolved_DotDotAtRootDropped(kept, Tail(todo))
         ELSE Resolved_DotDotAtRootDropped(SubSeq(kept, 1, Len(kept) - 1), Tail(todo))
    ELSE Resolved_DotDotAtRootDropped(Append(kept, Head(todo)), Tail(todo))

RECURSIVE Resolved(_, _)
Resolved(kept, todo) ==
    IF todo = << >> THEN [ok |-> TRUE, path |-> Joined(kept), error |-> "none"]
    ELSE IF Head(todo) = << >> \/ Head(todo) = <<".">>
    THEN Resolved(kept, Tail(todo))
    ELSE IF Head(todo) = DotDot
    THEN IF kept = << >> THEN InvalidPath
         ELSE Resolved(SubSeq(kept, 1, Len(kept) - 1), Tail(todo))
    ELSE Resolved(Append(kept, Head(todo)), Tail(todo))

\* PathNormalizer.normalize
normalize(p) ==
    IF \E k \in 1..Len(p) : p[k] = "NUL" THEN InvalidPath
    ELSE Resolved(<< >>, Split(BackslashesToSlashes(p)))

\* A caller hands a raw path to normalize.
Normalize ==
    /\ normalized = NoPath
    /\ \E p \in RawPaths :
           /\ rawPath' = p
           /\ normalized' = normalize(p)
    /\ renormalized' = NoPath
    /\ UNCHANGED beyondNormalizer

\* A caller hands a normalized path to normalize again.
NormalizeAgain ==
    /\ normalized.ok
    /\ renormalized = NoPath
    /\ renormalized' = normalize(normalized.path)
    /\ UNCHANGED <<rawPath, normalized>>
    /\ UNCHANGED beyondNormalizer

\* The results are dropped.
NormalizeReturns ==
    /\ normalized # NoPath
    /\ rawPath' = EmptyStr
    /\ normalized' = NoPath
    /\ renormalized' = NoPath
    /\ UNCHANGED beyondNormalizer

NormalizerNext ==
    \/ Normalize
    \/ NormalizeAgain
    \/ NormalizeReturns

NormalizerSpec == Init /\ [][NormalizerNext]_vars

(***************************************************************************)
(* C21                                                                     *)
(***************************************************************************)
\* The raw path, with slashes for backslashes, cut at every slash.
RawSegments == Split(BackslashesToSlashes(rawPath))

\* Whether a '..' of the segments ascends above the root, read from the
\* given depth below the root.
RECURSIVE Ascends(_, _)
Ascends(segments, depth) ==
    IF segments = << >> THEN FALSE
    ELSE IF Head(segments) = DotDot
    THEN depth = 0 \/ Ascends(Tail(segments), depth - 1)
    ELSE IF Head(segments) = << >> \/ Head(segments) = <<".">>
    THEN Ascends(Tail(segments), depth)
    ELSE Ascends(Tail(segments), depth + 1)

\* C21: a path that normalized successfully normalizes to itself; a raw
\* path whose '..' segments ascend above the root at some point is rejected
\* with InvalidPath; and no segment of a normalized path is empty, '.' or
\* '..', nor does the path begin with '/'.
C21_NormalizeIdempotent ==
    /\ renormalized # NoPath => renormalized = normalized
    /\ (normalized # NoPath /\ Ascends(RawSegments, 0))
       => normalized = InvalidPath
    /\ (normalized.ok /\ normalized.path # << >>)
       => /\ Head(normalized.path) # "/"
          /\ \A k \in 1..Len(Split(normalized.path)) :
                 Split(normalized.path)[k] \notin { << >>, <<".">>, DotDot }

\* A raw path with a '..' below the root, a backslash and an empty segment
\* was normalized twice.
C21_Witness ==
    /\ renormalized # NoPath
    /\ normalized.ok
    /\ normalized.path # << >>
    /\ normalized.path # rawPath
    /\ \E k \in 1..Len(RawSegments) : RawSegments[k] = DotDot

(***************************************************************************)
(* The write path of a persisted registry, section 5, modelled from its    *)
(* specification for the set of hidden paths: acquire the lock, read the   *)
(* persisted state, apply the mutation, write the whole state to a         *)
(* temporary file and replace the store by it, release the lock.  A        *)
(* reader reads the store at any time and takes no lock.                   *)
(***************************************************************************)
\* The paths the sessions of the model mark and unmark.
StorePaths == { <<"a">>, <<"e">> }

\* Whether a session that wants the lock gets it.
CanAcquire_Always(holder) == TRUE

CanAcquire(holder) == holder = NoHolder

\* The mutation of a session applied to a set of entries.
Applied(w, entries) == IF w.hidden THEN entries \cup {w.path} ELSE entries \ {w.path}

\* A request to mark or unmark a path arrives in a session.
BeginWrite(s, path, hidden) ==
    /\ writers[s].pc = "idle"
    /\ writers' = [writers EXCEPT ![s] = [pc |-> "wants", path |-> path,
                                          hidden |-> hidden, copy |-> {}]]
    /\ UNCHANGED <<lockHolder, persistedStore, tempFile, observed>>
    /\ UNCHANGED beyondStore

AcquireLock(s) ==
    /\ writers[s].pc = "wants"
    /\ CanAcquire(lockHolder)
    /\ lockHolder' = s
    /\ writers' = [writers EXCEPT ![s].pc = "locked"]
    /\ UNCHANGED <<persistedStore, tempFile, observed>>
    /\ UNCHANGED beyondStore

\* Read the current persisted state.
ReadStore(s) ==
    /\ writers[s].pc = "locked"
    /\ writers' = [writers EXCEPT ![s].pc = "read", ![s].copy = persistedStore.entries]
    /\ UNCHANGED <<lockHolder, persistedStore, tempFile, observed>>
    /\ UNCHANGED beyondStore

\* Apply the mutation to the copy.
ApplyMutation(s) ==
    /\ writers[s].pc = "read"
    /\ writers' = [writers EXCEPT ![s].pc = "applied",
                                  ![s].copy = Applied(writers[s], writers[s].copy)]
    /\ UNCHANGED <<lockHolder, persistedStore, tempFile, observed>>
    /\ UNCHANGED beyondStore

\* Write the whole state to the temporary file: the file is partial until
\* the write has ended.
WriteTemp(s) ==
    /\ writers[s].pc \in {"applied", "writing"}
    /\ IF writers[s].pc = "applied"
       THEN /\ tempFile' = FileOf({}, FALSE)
            /\ writers' = [writers EXCEPT ![s].pc = "writing"]
       ELSE /\ tempFile' = FileOf(writers[s].copy, TRUE)
            /\ writers' = [writers EXCEPT ![s].pc = "written"]
    /\ UNCHANGED <<lockHolder, persistedStore, observed>>
    /\ UNCHANGED beyondStore

\* Replace the store by the temporary file, atomically.
ReplaceStore(s) ==
    /\ writers[s].pc = "written"
    /\ persistedStore' = tempFile
    /\ writers' = [writers EXCEPT ![s].pc = "replaced"]
    /\ UNCHANGED <<lockHolder, tempFile, observed>>
    /\ UNCHANGED beyondStore

ReleaseLock(s) ==
    /\ writers[s].pc = "replaced"
    /\ lockHolder' = IF lockHolder = s THEN NoHolder ELSE lockHolder
    /\ writers' = [writers EXCEPT ![s] = Resting]
    /\ UNCHANGED <<persistedStore, tempFile, observed>>
    /\ UNCHANGED beyondStore

\* A reader reads the store.
ReadRegistry ==
    /\ observed' = persistedStore
    /\ UNCHANGED <<lockHolder, persistedStore, tempFile, writers>>
    /\ UNCHANGED beyondStore

StoreNext ==
    \/ \E s \in Sessions, path \in StorePaths, hidden \in BOOLEAN :
           BeginWrite(s, path, hidden)
    \/ \E s \in Sessions : AcquireLock(s)
    \/ \E s \in Sessions : ReadStore(s)
    \/ \E s \in Sessions : ApplyMutation(s)
    \/ \E s \in Sessions : WriteTemp(s)
    \/ \E s \in Sessions : ReplaceStore(s)
    \/ \E s \in Sessions : ReleaseLock(s)
    \/ ReadRegistry

StoreSpec == Init /\ [][StoreNext]_vars

(***************************************************************************)
(* C22                                                                     *)
(***************************************************************************)
\* The sessions between acquiring the lock and releasing it.
InWritePath == { s \in Sessions : writers[s].pc \notin {"idle", "wants"} }

\* C22: at most one session is between acquiring and releasing the lock;
\* every step that changes the persisted registry applies the mutation of
\* one session to the registry as it was persisted just before, so that no
\* update written between that session's read and its write is lost; and
\* what a reader saw is always a registry that was written in full.
C22_WritesSerialized ==
    /\ [](Cardinality(InWritePath) <= 1)
    /\ [][ persistedStore' # persistedStore
           => \E s \in Sessions :
                  /\ writers[s].pc = "written"
                  /\ persistedStore'.entries = Applied(writers[s], persistedStore.entries) ]_vars
    /\ [](observed.complete /\ persistedStore.complete)

\* A session waits for the lock while another has written its temporary
\* file in part, and a reader has seen the update of an earlier write.
C22_Witness ==
    /\ \E s, t \in Sessions :
           /\ writers[s].pc = "wants"
           /\ writers[t].pc = "writing"
           /\ writers[s].path # writers[t].path
    /\ ~tempFile.complete
    /\ observed.entries # {}

(***************************************************************************)
(* C23                                                                     *)
(***************************************************************************)
\* C23: the step that ends a /validate-key request with an ok response of
\* status "success" sends the window to the path the request carried, the
\* href of the folder link the key was entered for, whether or not the
\* modal was closed while the request was in flight.
C23_NavigatesToValidatedFolder ==
    [][ (ValidationEnds /\ Succeeded(validateOutcome'))
        => location' = validatePending.path ]_vars

(***************************************************************************)
(* C24                                                                     *)
(***************************************************************************)
\* The form does not pass the validation of lines 769-784.
FormInvalid ==
    \/ Len(files) = 0
    \/ uploadFileKey = EmptyStr
    \/ (isFolderMode /\ enableProtection /\ protectionPassword = EmptyStr)

ValidationMessages ==
    { "selectFolder", "selectFiles", "passwordRequired", "protectionPasswordRequired" }

\* C24: while the form is invalid and the confirm button can be used, no
\* step starts a batch, sends an upload request or a protection call, or
\* disables the confirm or the cancel button; and the step that shows a
\* validation message shows the one of the first check that fails and
\* changes nothing else.
C24_InvalidFormSendsNothing ==
    /\ [][ (FormInvalid /\ modalActive /\ ~confirmDisabled /\ phase = "idle")
           => (/\ phase' = "idle"
               /\ Len(sent') <= Len(sent)
               /\ inFlight' = {}
               /\ Len(protectionCalls') <= Len(protectionCalls)
               /\ ~confirmDisabled'
               /\ (cancelDisabled' => cancelDisabled)) ]_vars
    /\ [][ (uploadFileError' \in ValidationMessages /\ uploadFileError' # uploadFileError)
           => (/\ FormInvalid
               /\ uploadFileError' =
                      IF Len(files) = 0
                      THEN (IF isFolderMode THEN "selectFolder" ELSE "selectFiles")
                      ELSE IF uploadFileKey = EmptyStr THEN "passwordRequired"
                      ELSE "protectionPasswordRequired"
               /\ UNCHANGED <<formVars, batchVars, requestVars, timerVars>>
               /\ UNCHANGED <<modalActive, confirmDisabled, cancelDisabled,
                              progressHidden>>) ]_vars

\* The form was refused for its empty protection password: files are
\* selected, a key is typed, and nothing was sent.
C24_Witness ==
    /\ uploadFileError = "protectionPasswordRequired"
    /\ Len(files) > 0
    /\ uploadFileKey # EmptyStr
    /\ phase = "idle"
    /\ sent = << >>
    /\ protectionCalls = << >>
    /\ ~confirmDisabled
    /\ ~cancelDisabled

(***************************************************************************)
(* C25                                                                     *)
(***************************************************************************)
\* A batch has passed validation and has not yet attempted every file and
\* seen its protection call settle.
BatchActive == phase \in {"transfer", "protect"}

\* C25: while a batch is active the confirm button is disabled; a batch
\* starts only when none is active; and the batch that is active stays the
\* same one until it is over, whatever is done to the modal meanwhile.
C25_OneBatchAtATime ==
    /\ [](BatchActive => confirmDisabled)
    /\ [][ (phase' = "transfer" /\ phase # "transfer") => phase = "idle" ]_vars
    /\ [][ (BatchActive /\ BatchActive') => batch' = batch ]_vars

\* A batch is transferring while the modal, closed and opened again, shows
\* an emptied form and a disabled confirm button.
C25_Witness ==
    /\ phase = "transfer"
    /\ Len(batch.files) > 0
    /\ modalActive
    /\ files = << >>
    /\ confirmDisabled

(***************************************************************************)
(* C26                                                                     *)
(***************************************************************************)
\* C26: the upload modal is active as long as files of a batch are left to
\* attempt, and no upload request is sent while the modal is closed.
C26_ModalStaysDuringBatch ==
    /\ [](phase = "transfer" => modalActive)
    /\ [][ ~modalActive' => Len(sent') <= Len(sent) ]_vars

(***************************************************************************)
(* C27                                                                     *)
(***************************************************************************)
\* C27: every /api/delete-items request is sent while a delete mode is
\* active, and carries in X-Delete-Key the non-empty key entered for it.
C27_RequestCarriesEnteredKey ==
    [][ DeleteRequestSent
        => (/\ enteredDeleteKey # Null
            /\ enteredDeleteKey # EmptyStr
            /\ deleteRequests'[Len(deleteRequests')].key = enteredDeleteKey) ]_vars

(***************************************************************************)
(* FileBrowser.setupHiddenToggle: the checkbox that hides the current      *)
(* folder or makes it visible again, and the modal that asks for the key.  *)
(* The page is one the hidden key is configured for (line 315).  The       *)
(* checkbox stands outside the modal and takes a change at any time; the   *)
(* controls of the modal are used while it is active.  The action text and *)
(* the focus are shown only and left out.                                  *)
(***************************************************************************)
\* What the user may type into the key input of a keyed modal.
KeyedInputs == { EmptyStr, <<"k">> }

\* How an awaited fetch ends, and what response.json() makes of a response:
\* ok is response.ok; body is an object with or without an error member,
\* null, or no JSON at all.
FetchEnds == { "rejected", "response" }

Replies == [ok : BOOLEAN, body : {"object", "objectWithError", "null", "unparsable"}]

\* config.parentUrl || '/', line 379.
ParentUrl == <<"/">>

\* A sequence without its k-th element.
Without(seq, k) == SubSeq(seq, 1, k - 1) \o SubSeq(seq, k + 1, Len(seq))

\* FileBrowser.init, lines 11-20: a page is loaded for a path that is hidden
\* or is not.
LoadPage(hidden) ==
    /\ NotReturning
    /\ UploadReset
    /\ AccessReset
    /\ DeleteReset
    /\ KeyedReset(hidden)
    /\ UNCHANGED apartVars

\* The change listener of lines 333-344; the browser has flipped the
\* checkbox before it runs.
ChangeHiddenToggle ==
    /\ location = Here
    /\ hiddenToggleChecked' = ~hiddenToggleChecked
    /\ hiddenModalKeyInput' = EmptyStr
    /\ hiddenModalError' = "none"
    /\ hiddenKeyModalActive' = TRUE
    /\ UNCHANGED <<isCurrentPathHidden, hiddenModalConfirmDisabled, toggleRequests,
                   location>>
    /\ UNCHANGED beyondHidden

TypeHiddenKey(text) ==
    /\ location = Here
    /\ hiddenKeyModalActive
    /\ hiddenModalKeyInput' = text
    /\ UNCHANGED <<isCurrentPathHidden, hiddenToggleChecked, hiddenKeyModalActive,
                   hiddenModalError, hiddenModalConfirmDisabled, toggleRequests,
                   location>>
    /\ UNCHANGED beyondHidden

\* ModalManager.hide('hiddenKeyModal'), lines 970-978, with the onClose of
\* lines 326-331.
HideHiddenKeyModal ==
    /\ hiddenKeyModalActive' = FALSE
    /\ hiddenToggleChecked' = RevertedToggle(isCurrentPathHidden, hiddenToggleChecked)

\* Click on #hiddenModalCancelBtn, lines 346-348.
HiddenCancelClick ==
    /\ location = Here
    /\ hiddenKeyModalActive
    /\ HideHiddenKeyModal
    /\ UNCHANGED <<hiddenRest, location>>
    /\ UNCHANGED beyondHidden

\* The overlay click listener ModalManager.register puts on hiddenKeyModal,
\* lines 945-952.
HiddenOverlayClick ==
    /\ location = Here
    /\ hiddenKeyModalActive
    /\ HideHiddenKeyModal
    /\ UNCHANGED <<hiddenRest, location>>
    /\ UNCHANGED beyondHidden

\* The hide flag of the request, line 352: what the checkbox shows at the
\* click.
ShouldHide == hiddenToggleChecked

\* The click listener of hiddenModalConfirmBtn, lines 350-369, up to its
\* first await.  A disabled button gets no click.
HiddenConfirmHandler ==
    /\ location = Here
    /\ hiddenKeyModalActive
    /\ ~hiddenModalConfirmDisabled
    /\ IF Falsy(hiddenModalKeyInput)
       THEN /\ hiddenModalError' = "keyRequired"
            /\ UNCHANGED <<hiddenModalConfirmDisabled, toggleRequests>>
       ELSE /\ hiddenModalConfirmDisabled' = TRUE
            /\ toggleRequests' = Append(toggleRequests,
                                        [path |-> Here, key |-> hiddenModalKeyInput,
                                         hide |-> ShouldHide, stage |-> "fetch"])
            /\ UNCHANGED hiddenModalError
    /\ UNCHANGED <<isCurrentPathHidden, hiddenToggleChecked, hiddenKeyModalActive,
                   hiddenModalKeyInput, location>>
    /\ UNCHANGED beyondHidden

HiddenConfirmClick == HiddenConfirmHandler

\* The keypress listener of lines 387-394 for the Enter key.
HiddenEnterKeypress == HiddenConfirmHandler

\* The await of fetch ends, lines 362-371: a rejection goes to catch, a
\* response to response.json().
ToggleSettles(k, end) ==
    /\ location = Here
    /\ k \in 1..Len(toggleRequests)
    /\ toggleRequests[k].stage = "fetch"
    /\ IF end = "rejected"
       THEN /\ toggleRequests' = Without(toggleRequests, k)
            /\ hiddenModalError' = "thrown"
            /\ hiddenModalConfirmDisabled' = FALSE
       ELSE /\ toggleRequests' = [toggleRequests EXCEPT ![k].stage = "json"]
            /\ UNCHANGED <<hiddenModalError, hiddenModalConfirmDisabled>>
    /\ UNCHANGED <<isCurrentPathHidden, hiddenToggleChecked, hiddenKeyModalActive,
                   hiddenModalKeyInput, location>>
    /\ UNCHANGED beyondHidden

\* Whether the exchange of lines 362-379 got through: the body is JSON and
\* the response ok.  The body of an ok response is not looked at.
ToggleSucceeded(r) == r.body # "unparsable" /\ r.ok

\* The message the catch of lines 380-383 shows: result.error, 'Request
\* failed', or the message of what was thrown (a body that is no JSON, the
\* error member of null).
ToggleFailure(r) ==
    IF r.body = "objectWithError" THEN "serverError"
    ELSE IF r.body = "object" THEN "requestFailed"
    ELSE "thrown"

\* The button after a failed request, line 382.
DisabledAfterFailure_Kept == TRUE

DisabledAfterFailure == FALSE

\* The await of response.json() ends, lines 371-383.  On success the window
\* leaves for the parent and the button stays as it is.
ToggleBodyRead(k, r) ==
    /\ location = Here
    /\ k \in 1..Len(toggleRequests)
    /\ toggleRequests[k].stage = "json"
    /\ toggleRequests' = Without(toggleRequests, k)
    /\ IF ToggleSucceeded(r)
       THEN /\ location' = ParentUrl
            /\ UNCHANGED <<hiddenModalError, hiddenModalConfirmDisabled>>
       ELSE /\ hiddenModalError' = ToggleFailure(r)
            /\ hiddenModalConfirmDisabled' = DisabledAfterFailure
            /\ UNCHANGED location
    /\ UNCHANGED <<isCurrentPathHidden, hiddenToggleChecked, hiddenKeyModalActive,
                   hiddenModalKeyInput>>
    /\ UNCHANGED beyondHidden

HiddenToggleNext ==
    \/ \E hidden \in BOOLEAN : LoadPage(hidden)
    \/ ChangeHiddenToggle
    \/ \E text \in KeyedInputs : TypeHiddenKey(text)
    \/ HiddenCancelClick
    \/ HiddenOverlayClick
    \/ EscapeKey
    \/ HiddenConfirmClick
    \/ HiddenEnterKeypress
    \/ \E k \in 1..Len(toggleRequests), end \in FetchEnds : ToggleSettles(k, end)
    \/ \E k \in 1..Len(toggleRequests), r \in Replies : ToggleBodyRead(k, r)

HiddenToggleSpec == Init /\ [][HiddenToggleNext]_vars

(***************************************************************************)
(* C28                                                                     *)
(***************************************************************************)
\* A /api/toggle-hidden request of the page ends in the catch of lines
\* 380-383.
ToggleFailed ==
    /\ Len(toggleRequests') < Len(toggleRequests)
    /\ hiddenModalError' \in {"thrown", "serverError", "requestFailed"}

\* C28: while the hidden-key modal is not active and no toggle-hidden
\* request has succeeded (the window has not left for the parent), the
\* hidden-toggle checkbox shows the configured hidden state of the path.
\* Every step that closes the modal, by cancel, Escape or overlay click,
\* leaves the checkbox at the configured state, and a request that fails
\* neither opens nor closes the modal.
C28_ToggleShowsConfiguredState ==
    /\ []((location # ParentUrl /\ ~hiddenKeyModalActive) =>
              hiddenToggleChecked = isCurrentPathHidden)
    /\ [][ (hiddenKeyModalActive /\ ~hiddenKeyModalActive') =>
               hiddenToggleChecked' = isCurrentPathHidden' ]_vars
    /\ [][ ToggleFailed => hiddenKeyModalActive' = hiddenKeyModalActive ]_vars

\* The toggle of a hidden path was unchecked, the server refused the key,
\* and the modal was closed: the checkbox is checked again.
C28_Witness ==
    /\ location = Here
    /\ isCurrentPathHidden
    /\ ~hiddenKeyModalActive
    /\ hiddenModalError = "serverError"
    /\ hiddenToggleChecked
    /\ toggleRequests = << >>

(***************************************************************************)
(* C29                                                                     *)
(***************************************************************************)
\* C29: every /api/toggle-hidden request is sent with a key that is not
\* empty and asks for the opposite of the hidden state of the path: its
\* hide flag is never the state the path is in.
C29_RequestAsksForOpposite ==
    [][ Len(toggleRequests') > Len(toggleRequests) =>
            LET request == toggleRequests'[Len(toggleRequests')]
            IN  /\ request.key # EmptyStr
                /\ request.hide = ~isCurrentPathHidden ]_vars

(***************************************************************************)
(* FileBrowser.setupViewHiddenModal: the modal that asks for the password  *)
(* before hidden folders are shown or hidden again.  The page is one the   *)
(* hidden key is configured for (line 401).  Title and text are shown only *)
(* and left out.                                                           *)
(***************************************************************************)
\* location.reload(): the page is loaded anew for the same path.
Reload ==
    /\ UploadReset
    /\ AccessReset
    /\ DeleteReset
    /\ KeyedReset(isCurrentPathHidden)
    /\ UNCHANGED apartVars

\* The click listener of viewHiddenBtn, lines 415-428.
ViewHiddenClick ==
    /\ location = Here
    /\ viewHiddenKeyInput' = EmptyStr
    /\ viewHiddenError' = "none"
    /\ viewHiddenModalActive' = TRUE
    /\ UNCHANGED <<viewHiddenConfirmDisabled, viewHiddenRequests>>
    /\ UNCHANGED beyondViewHidden

TypeViewHiddenKey(text) ==
    /\ location = Here
    /\ viewHiddenModalActive
    /\ viewHiddenKeyInput' = text
    /\ UNCHANGED <<viewHiddenModalActive, viewHiddenError, viewHiddenConfirmDisabled,
                   viewHiddenRequests>>
    /\ UNCHANGED beyondViewHidden

\* Click on #viewHiddenCancelBtn, lines 429-431.
ViewHiddenCancelClick ==
    /\ location = Here
    /\ viewHiddenModalActive
    /\ viewHiddenModalActive' = FALSE
    /\ UNCHANGED viewHiddenRest
    /\ UNCHANGED beyondViewHidden

\* The overlay click listener ModalManager.register puts on viewHiddenModal.
ViewHiddenOverlayClick ==
    /\ location = Here
    /\ viewHiddenModalActive
    /\ viewHiddenModalActive' = FALSE
    /\ UNCHANGED viewHiddenRest
    /\ UNCHANGED beyondViewHidden

\* The button while the request of its modal is awaited, lines 441 and 537.
DisabledWhileAwaited_No == FALSE

DisabledWhileAwaited == TRUE

\* The click listener of viewHiddenConfirmBtn, lines 434-448, up to its
\* first await.  A disabled button gets no click.
ViewHiddenConfirmHandler ==
    /\ location = Here
    /\ viewHiddenModalActive
    /\ ~viewHiddenConfirmDisabled
    /\ IF Falsy(viewHiddenKeyInput)
       THEN /\ viewHiddenError' = "passwordRequired"
            /\ UNCHANGED <<viewHiddenConfirmDisabled, viewHiddenRequests>>
       ELSE /\ viewHiddenConfirmDisabled' = DisabledWhileAwaited
            /\ viewHiddenRequests' = Append(viewHiddenRequests,
                                            [key |-> viewHiddenKeyInput,
                                             stage |-> "fetch"])
            /\ UNCHANGED viewHiddenError
    /\ UNCHANGED <<viewHiddenModalActive, viewHiddenKeyInput>>
    /\ UNCHANGED beyondViewHidden

ViewHiddenConfirmClick == ViewHiddenConfirmHandler

\* The keypress listener of lines 465-470 for the Enter key.
ViewHiddenEnterKeypress == ViewHiddenConfirmHandler

\* What the handlers of lines 453-457 and 555-559 show after a response
\* that does not reload the page: result.error || 'Failed.', or 'Network
\* error.' when the body is no JSON or null, whose error member cannot be
\* read.
RefusalShown(r) ==
    IF r.body = "objectWithError" THEN "serverError"
    ELSE IF r.body = "object" THEN "failed"
    ELSE "networkError"

\* Whether the handler reloads the page, lines 450-452 and 552-554: the body is
\* JSON and the response ok.
Reloads(r) == r.body # "unparsable" /\ r.ok

\* The await of fetch ends, lines 444-450: a rejection goes to catch and
\* finally, a response to response.json().
ViewHiddenSettles(k, end) ==
    /\ location = Here
    /\ k \in 1..Len(viewHiddenRequests)
    /\ viewHiddenRequests[k].stage = "fetch"
    /\ IF end = "rejected"
       THEN /\ viewHiddenRequests' = Without(viewHiddenRequests, k)
            /\ viewHiddenError' = "networkError"
            /\ viewHiddenConfirmDisabled' = FALSE
       ELSE /\ viewHiddenRequests' = [viewHiddenRequests EXCEPT ![k].stage = "json"]
            /\ UNCHANGED <<viewHiddenError, viewHiddenConfirmDisabled>>
    /\ UNCHANGED <<viewHiddenModalActive, viewHiddenKeyInput>>
    /\ UNCHANGED beyondViewHidden

\* The await of response.json() ends, lines 450-460: the page is reloaded,
\* or a message is shown; finally enables the button.
ViewHiddenBodyRead(k, r) ==
    /\ location = Here
    /\ k \in 1..Len(viewHiddenRequests)
    /\ viewHiddenRequests[k].stage = "json"
    /\ IF Reloads(r)
       THEN Reload
       ELSE /\ viewHiddenRequests' = Without(viewHiddenRequests, k)
            /\ viewHiddenError' = RefusalShown(r)
            /\ viewHiddenConfirmDisabled' = FALSE
            /\ UNCHANGED <<viewHiddenModalActive, viewHiddenKeyInput>>
            /\ UNCHANGED beyondViewHidden

(***************************************************************************)
(* FileBrowser.setupCreateFolderModal.  The container of the protection    *)
(* password is visible exactly while enableFolderProtection is checked.    *)
(***************************************************************************)
\* What the user may type into newFolderName.
FolderNames == { EmptyStr, <<" ">>, <<"n">> }

\* The click listener of createFolderBtn, lines 492-501.
CreateFolderClick ==
    /\ location = Here
    /\ newFolderName' = EmptyStr
    /\ createFolderKey' = EmptyStr
    /\ createFolderError' = "none"
    /\ enableFolderProtection' = FALSE
    /\ folderProtectionPassword' = EmptyStr
    /\ createFolderModalActive' = TRUE
    /\ UNCHANGED <<createFolderConfirmDisabled, createFolderRequests>>
    /\ UNCHANGED beyondCreateFolder

TypeNewFolderName(text) ==
    /\ location = Here
    /\ createFolderModalActive
    /\ newFolderName' = text
    /\ UNCHANGED <<createFolderModalActive, createFolderKey, createFolderError,
                   enableFolderProtection, folderProtectionPassword,
                   createFolderConfirmDisabled, createFolderRequests>>
    /\ UNCHANGED beyondCreateFolder

TypeCreateFolderKey(text) ==
    /\ location = Here
    /\ createFolderModalActive
    /\ createFolderKey' = text
    /\ UNCHANGED <<createFolderModalActive, newFolderName, createFolderError,
                   enableFolderProtection, folderProtectionPassword,
                   createFolderConfirmDisabled, createFolderRequests>>
    /\ UNCHANGED beyondCreateFolder

\* The change listener of enableFolderProtection, lines 508-516.
ChangeEnableFolderProtection ==
    /\ location = Here
    /\ createFolderModalActive
    /\ enableFolderProtection' = ~enableFolderProtection
    /\ folderProtectionPassword' = IF enableFolderProtection'
                                   THEN folderProtectionPassword
                                   ELSE EmptyStr
    /\ UNCHANGED <<createFolderModalActive, newFolderName, createFolderKey,
                   createFolderError, createFolderConfirmDisabled,
                   createFolderRequests>>
    /\ UNCHANGED beyondCreateFolder

TypeFolderProtectionPassword(text) ==
    /\ location = Here
    /\ createFolderModalActive
    /\ enableFolderProtection
    /\ folderProtectionPassword' = text
    /\ UNCHANGED <<createFolderModalActive, newFolderName, createFolderKey,
                   createFolderError, enableFolderProtection,
                   createFolderConfirmDisabled, createFolderRequests>>
    /\ UNCHANGED beyondCreateFolder

\* Click on #createFolderCancelBtn, lines 503-505.
CreateFolderCancelClick ==
    /\ location = Here
    /\ createFolderModalActive
    /\ createFolderModalActive' = FALSE
    /\ UNCHANGED createFolderRest
    /\ UNCHANGED beyondCreateFolder

\* The overlay click listener ModalManager.register puts on
\* createFolderModal.
CreateFolderOverlayClick ==
    /\ location = Here
    /\ createFolderModalActive
    /\ createFolderModalActive' = FALSE
    /\ UNCHANGED createFolderRest
    /\ UNCHANGED beyondCreateFolder

ProtectionPwd_Always == folderProtectionPassword

\* Line 530: the protection password the request carries.
ProtectionPwd == IF enableFolderProtection THEN folderProtectionPassword ELSE Null

\* The click listener of createFolderConfirmBtn, lines 520-550, up to its
\* first await.  A disabled button gets no click.
CreateFolderConfirmHandler ==
    /\ location = Here
    /\ createFolderModalActive
    /\ ~createFolderConfirmDisabled
    /\ IF Falsy(Trim(newFolderName)) \/ Falsy(createFolderKey)
       THEN /\ createFolderError' = "nameAndPasswordRequired"
            /\ UNCHANGED <<createFolderConfirmDisabled, createFolderRequests>>
       ELSE IF enableFolderProtection /\ Falsy(ProtectionPwd)
       THEN /\ createFolderError' = "protectionPasswordRequired"
            /\ UNCHANGED <<createFolderConfirmDisabled, createFolderRequests>>
       ELSE /\ createFolderConfirmDisabled' = DisabledWhileAwaited
            /\ createFolderError' = "none"
            /\ createFolderRequests' =
                   Append(createFolderRequests,
                          [parent_path |-> Here, folder_name |-> Trim(newFolderName),
                           key |-> createFolderKey,
                           protection_password |-> ProtectionPwd,
                           stage |-> "fetch"])
    /\ UNCHANGED <<createFolderModalActive, newFolderName, createFolderKey,
                   enableFolderProtection, folderProtectionPassword>>
    /\ UNCHANGED beyondCreateFolder

CreateFolderConfirmClick == CreateFolderConfirmHandler

\* The keypress listeners of lines 566-575 for the Enter key.
CreateFolderEnterKeypress == CreateFolderConfirmHandler

\* The await of fetch ends, lines 541-552.
CreateFolderSettles(k, end) ==
    /\ location = Here
    /\ k \in 1..Len(createFolderRequests)
    /\ createFolderRequests[k].stage = "fetch"
    /\ IF end = "rejected"
       THEN /\ createFolderRequests' = Without(createFolderRequests, k)
            /\ createFolderError' = "networkError"
            /\ createFolderConfirmDisabled' = FALSE
       ELSE /\ createFolderRequests' = [createFolderRequests EXCEPT ![k].stage = "json"]
            /\ UNCHANGED <<createFolderError, createFolderConfirmDisabled>>
    /\ UNCHANGED <<createFolderModalActive, newFolderName, createFolderKey,
                   enableFolderProtection, folderProtectionPassword>>
    /\ UNCHANGED beyondCreateFolder

\* The await of response.json() ends, lines 552-562.
CreateFolderBodyRead(k, r) ==
    /\ location = Here
    /\ k \in 1..Len(createFolderRequests)
    /\ createFolderRequests[k].stage = "json"
    /\ IF Reloads(r)
       THEN Reload
       ELSE /\ createFolderRequests' = Without(createFolderRequests, k)
            /\ createFolderError' = RefusalShown(r)
            /\ createFolderConfirmDisabled' = FALSE
            /\ UNCHANGED <<createFolderModalActive, newFolderName, createFolderKey,
                           enableFolderProtection, folderProtectionPassword>>
            /\ UNCHANGED beyondCreateFolder

(***************************************************************************)
(* The four modals that send one request behind a submit button, taken     *)
(* together: the access-key, hidden-toggle, view-hidden and create-folder  *)
(* modals on one page.  A page load is followed while the user works with  *)
(* at most MaxModalsInUse of them.                                         *)
(***************************************************************************)
MaxModalsInUse == 1

KeyedModals == {"accessKeyModal", "hiddenKeyModal", "viewHiddenModal", "createFolderModal"}

\* A modal is in use once it is not as the page load left it.
InUse(id) ==
    IF id = "accessKeyModal"
    THEN \/ accessModalActive
         \/ modalKeyInput # EmptyStr
         \/ modalError # "none"
         \/ modalSubmitDisabled
         \/ validatePending # NoRequest
    ELSE IF id = "hiddenKeyModal"
    THEN \/ hiddenKeyModalActive
         \/ hiddenModalKeyInput # EmptyStr
         \/ hiddenModalError # "none"
         \/ hiddenModalConfirmDisabled
         \/ toggleRequests # << >>
    ELSE IF id = "viewHiddenModal"
    THEN \/ viewHiddenModalActive
         \/ viewHiddenKeyInput # EmptyStr
         \/ viewHiddenError # "none"
         \/ viewHiddenConfirmDisabled
         \/ viewHiddenRequests # << >>
    ELSE \/ createFolderModalActive
         \/ newFolderName # EmptyStr
         \/ createFolderKey # EmptyStr
         \/ createFolderError # "none"
         \/ createFolderConfirmDisabled
         \/ createFolderRequests # << >>

\* The user turns to the modal id: it is in use already, or fewer than
\* MaxModalsInUse are.
TurnsTo(id) ==
    \/ InUse(id)
    \/ Cardinality({other \in KeyedModals : InUse(other)}) < MaxModalsInUse

\* One protected folder of the listing.
KeyedLinks == { <<"/", "x">> }

KeyedNext ==
    \/ LoadPage(isCurrentPathHidden)
    \/ EscapeKey
    \/ TurnsTo("accessKeyModal") /\ \E href \in KeyedLinks : ClickProtectedLink(href)
    \/ \E text \in KeyedInputs : TypeModalKey(text)
    \/ AccessCancelClick
    \/ AccessOverlayClick
    \/ SubmitClick
    \/ EnterKeypress
    \/ \E outcome \in ValidateOutcomes : ValidateSettles(outcome)
    \/ ValidateBodyRead
    \/ TurnsTo("hiddenKeyModal") /\ ChangeHiddenToggle
    \/ \E text \in KeyedInputs : TypeHiddenKey(text)
    \/ HiddenCancelClick
    \/ HiddenOverlayClick
    \/ HiddenConfirmClick
    \/ HiddenEnterKeypress
    \/ \E k \in 1..Len(toggleRequests), end \in FetchEnds : ToggleSettles(k, end)
    \/ \E k \in 1..Len(toggleRequests), r \in Replies : ToggleBodyRead(k, r)
    \/ TurnsTo("viewHiddenModal") /\ ViewHiddenClick
    \/ \E text \in KeyedInputs : TypeViewHiddenKey(text)
    \/ ViewHiddenCancelClick
    \/ ViewHiddenOverlayClick
    \/ ViewHiddenConfirmClick
    \/ ViewHiddenEnterKeypress
    \/ \E k \in 1..Len(viewHiddenRequests), end \in FetchEnds : ViewHiddenSettles(k, end)
    \/ \E k \in 1..Len(viewHiddenRequests), r \in Replies : ViewHiddenBodyRead(k, r)
    \/ TurnsTo("createFolderModal") /\ CreateFolderClick
    \/ \E text \in FolderNames : TypeNewFolderName(text)
    \/ \E text \in KeyedInputs : TypeCreateFolderKey(text)
    \/ ChangeEnableFolderProtection
    \/ \E text \in KeyedInputs : TypeFolderProtectionPassword(text)
    \/ CreateFolderCancelClick
    \/ CreateFolderOverlayClick
    \/ CreateFolderConfirmClick
    \/ CreateFolderEnterKeypress
    \/ \E k \in 1..Len(createFolderRequests), end \in FetchEnds : CreateFolderSettles(k, end)
    \/ \E k \in 1..Len(createFolderRequests), r \in Replies : CreateFolderBodyRead(k, r)

KeyedSpec == Init /\ [][KeyedNext]_vars

(***************************************************************************)
(* C30                                                                     *)
(***************************************************************************)
\* The /validate-key request of the access-key modal is awaited.
ValidateInFlight == validatePending.stage \in {"fetch", "json"}

\* C30: the submit button of the access-key modal is disabled exactly while
\* its /validate-key request is awaited, and the confirm buttons of the
\* view-hidden and create-folder modals exactly while a request of theirs
\* is awaited, of which there is never more than one; so after every
\* outcome, a reload, an error response or a network error, the button is
\* enabled.  The confirm button of the hidden-toggle modal is disabled only
\* while its request is awaited or after the request succeeded and the
\* window left for the parent: after a failed request it is enabled.
C30_DisabledWhileInFlight ==
    /\ modalSubmitDisabled <=> ValidateInFlight
    /\ viewHiddenConfirmDisabled <=> viewHiddenRequests # << >>
    /\ Len(viewHiddenRequests) <= 1
    /\ createFolderConfirmDisabled <=> createFolderRequests # << >>
    /\ Len(createFolderRequests) <= 1
    /\ hiddenModalConfirmDisabled => (toggleRequests # << >> \/ location = ParentUrl)

\* The create-folder modal shows the refusal of the server for a folder
\* with a protection password, with its button enabled and no request
\* awaited.
C30_Witness ==
    /\ location = Here
    /\ createFolderModalActive
    /\ enableFolderProtection
    /\ folderProtectionPassword # EmptyStr
    /\ createFolderError = "serverError"
    /\ ~createFolderConfirmDisabled
    /\ createFolderRequests = << >>

(***************************************************************************)
(* ModalManager (lines 926-995) for any modals: register, show, hide, the  *)
(* overlay click listener and the Escape handler.  onClose of a config is  *)
(* whether options.onClose was given; the callback itself is counted when  *)
(* it is invoked.                                                          *)
(***************************************************************************)
MaxRegistrations == 2

\* The options register may be called with: closeOnEscape and
\* closeOnOverlay are what lines 939-940 make of them.
RegisterOptions == [onClose : BOOLEAN, closeOnEscape : BOOLEAN, closeOnOverlay : BOOLEAN]

\* The config of lines 936-941.
ConfigOf(options) ==
    [registered |-> TRUE, onClose |-> options.onClose,
     closeOnEscape |-> options.closeOnEscape, closeOnOverlay |-> options.closeOnOverlay]

\* How often one hide(id) invokes the onClose of a config, lines 974-976.
OnCloseCalls_None(config) == 0

OnCloseCalls(config) == IF config.registered /\ config.onClose THEN 1 ELSE 0

\* ModalManager.register, lines 932-955: nothing for an id without element.
register(id, options) ==
    /\ (id \in Elements /\ options.closeOnOverlay) =>
           overlayListeners[id] < MaxRegistrations
    /\ lastCall' = [op |-> "register", id |-> id]
    /\ closed' = [other \in ModalIds |-> 0]
    /\ IF id \in Elements
       THEN /\ modals' = [modals EXCEPT ![id] = ConfigOf(options)]
            /\ overlayListeners' =
                   IF options.closeOnOverlay
                   THEN [overlayListeners EXCEPT ![id] = @ + 1]
                   ELSE overlayListeners
       ELSE UNCHANGED <<modals, overlayListeners>>
    /\ UNCHANGED activeClass
    /\ UNCHANGED beyondManager

\* ModalManager.show, lines 960-965.
show(id) ==
    /\ lastCall' = [op |-> "show", id |-> id]
    /\ closed' = [other \in ModalIds |-> 0]
    /\ activeClass' = IF modals[id].registered THEN activeClass \cup {id} ELSE activeClass
    /\ UNCHANGED <<modals, overlayListeners>>
    /\ UNCHANGED beyondManager

\* ModalManager.hide, lines 970-978.
hide(id) ==
    /\ lastCall' = [op |-> "hide", id |-> id]
    /\ closed' = [other \in ModalIds |->
                     IF other = id THEN OnCloseCalls(modals[id]) ELSE 0]
    /\ activeClass' = IF modals[id].registered THEN activeClass \ {id} ELSE activeClass
    /\ UNCHANGED <<modals, overlayListeners>>
    /\ UNCHANGED beyondManager

\* A click on the overlay of an active modal: every listener of lines
\* 946-950 on the element calls hide(id).
ManagerOverlayClick(id) ==
    /\ id \in activeClass
    /\ lastCall' = [op |-> "overlay", id |-> id]
    /\ closed' = [other \in ModalIds |->
                     IF other = id
                     THEN overlayListeners[id] * OnCloseCalls(modals[id])
                     ELSE 0]
    /\ activeClass' = IF overlayListeners[id] > 0 /\ modals[id].registered
                      THEN activeClass \ {id}
                      ELSE activeClass
    /\ UNCHANGED <<modals, overlayListeners>>
    /\ UNCHANGED beyondManager

\* The test of line 988.
EscapeHides(id) == modals[id].registered /\ modals[id].closeOnEscape /\ id \in activeClass

\* The keydown listener of lines 984-993 for the Escape key.
ManagerEscape ==
    /\ lastCall' = [op |-> "escape", id |-> "none"]
    /\ closed' = [id \in ModalIds |->
                     IF EscapeHides(id) THEN OnCloseCalls(modals[id]) ELSE 0]
    /\ activeClass' = { id \in activeClass : ~EscapeHides(id) }
    /\ UNCHANGED <<modals, overlayListeners>>
    /\ UNCHANGED beyondManager

ManagerNext ==
    \/ \E id \in ModalIds, options \in RegisterOptions : register(id, options)
    \/ \E id \in ModalIds : show(id)
    \/ \E id \in ModalIds : hide(id)
    \/ \E id \in Elements : ManagerOverlayClick(id)
    \/ ManagerEscape

ManagerSpec == Init /\ [][ManagerNext]_vars

(***************************************************************************)
(* C31                                                                     *)
(***************************************************************************)
\* Nothing of ModalManager but its record of the last call changes.
ManagerUntouched ==
    /\ modals' = modals
    /\ activeClass' = activeClass
    /\ \A id \in ModalIds : closed'[id] = 0

\* C31: show of a registered id makes its modal active and invokes no
\* onClose; hide of a registered id makes it inactive and invokes its
\* onClose, if it has one, once; show and hide of an id that is not
\* registered change nothing.  An Escape key press makes inactive exactly
\* the modals that are active and registered with closeOnEscape, invokes
\* the onClose of each of them once, and invokes no onClose of any other.
C31_ShowHideEscape ==
    [][ /\ lastCall'.op = "show" =>
               IF modals[lastCall'.id].registered
               THEN /\ activeClass' = activeClass \cup {lastCall'.id}
                    /\ modals' = modals
                    /\ \A id \in ModalIds : closed'[id] = 0
               ELSE ManagerUntouched
        /\ lastCall'.op = "hide" =>
               IF modals[lastCall'.id].registered
               THEN /\ activeClass' = activeClass \ {lastCall'.id}
                    /\ modals' = modals
                    /\ \A id \in ModalIds :
                           closed'[id] = IF id = lastCall'.id /\ modals[id].onClose
                                         THEN 1 ELSE 0
               ELSE ManagerUntouched
        /\ lastCall'.op = "escape" =>
               /\ modals' = modals
               /\ \A id \in ModalIds :
                      LET hidden == /\ id \in activeClass
                                    /\ modals[id].registered
                                    /\ modals[id].closeOnEscape
                      IN  /\ id \in activeClass' <=> (id \in activeClass /\ ~hidden)
                          /\ closed'[id] = IF hidden /\ modals[id].onClose THEN 1 ELSE 0
      ]_vars

\* Escape was pressed with two modals active, of which one is registered
\* with closeOnEscape and an onClose and the other without closeOnEscape:
\* the first was hidden and its onClose invoked, the second is active.
C31_Witness ==
    /\ lastCall.op = "escape"
    /\ modals["m1"].closeOnEscape
    /\ modals["m1"].onClose
    /\ closed["m1"] = 1
    /\ "m1" \notin activeClass
    /\ modals["m2"].registered
    /\ modals["m2"].onClose
    /\ ~modals["m2"].closeOnEscape
    /\ "m2" \in activeClass
    /\ closed["m2"] = 0

(***************************************************************************)
(* ConfirmDialog.show (lines 1000-1029) for any callbacks, with            *)
(* confirmDeleteModal registered as line 184 registers it.  A callback is  *)
(* known by the show call it was given to.  The buttons are clicked while  *)
(* the dialog is active.                                                   *)
(***************************************************************************)
MaxShows == 3

\* The listeners of the node cloneNode(true) makes of a button, lines
\* 1012-1015: cloning copies no listener added with addEventListener.
ClonedListeners_Kept(listeners) == listeners

ClonedListeners(listeners) == << >>

\* ConfirmDialog.show(title, message, onConfirm, onCancel).
\* Its arguments say whether the call was given the callback.
ConfirmDialogShow(withConfirm, withCancel) ==
    /\ shows < MaxShows
    /\ shows' = shows + 1
    /\ latestShow' = [onConfirm |-> withConfirm, onCancel |-> withCancel]
    /\ confirmListeners' = Append(ClonedListeners(confirmListeners),
                                  [show |-> shows + 1, callback |-> withConfirm])
    /\ cancelListeners' = Append(ClonedListeners(cancelListeners),
                                 [show |-> shows + 1, callback |-> withCancel])
    /\ dialogActive' = TRUE
    /\ lastClick' = "show"
    /\ UNCHANGED called
    /\ UNCHANGED beyondDialog

\* The callbacks a click invokes: every listener of the button runs, lines
\* 1017-1020 and 1022-1025.
RECURSIVE Invoked(_, _)
Invoked(listeners, kind) ==
    IF listeners = << >> THEN << >>
    ELSE (IF Head(listeners).callback
          THEN << [show |-> Head(listeners).show, kind |-> kind] >>
          ELSE << >>) \o Invoked(Tail(listeners), kind)

\* A click on the confirm button.
DialogConfirmClick ==
    /\ dialogActive
    /\ dialogActive' = (confirmListeners = << >>)
    /\ called' = called \o Invoked(confirmListeners, "onConfirm")
    /\ lastClick' = "confirm"
    /\ UNCHANGED <<shows, latestShow, confirmListeners, cancelListeners>>
    /\ UNCHANGED beyondDialog

\* A click on the cancel button.
DialogCancelClick ==
    /\ dialogActive
    /\ dialogActive' = (cancelListeners = << >>)
    /\ called' = called \o Invoked(cancelListeners, "onCancel")
    /\ lastClick' = "cancel"
    /\ UNCHANGED <<shows, latestShow, confirmListeners, cancelListeners>>
    /\ UNCHANGED beyondDialog

\* The Escape key or a click on the overlay: ModalManager.hide.
DialogDismiss ==
    /\ dialogActive
    /\ dialogActive' = FALSE
    /\ lastClick' = "dismiss"
    /\ UNCHANGED <<shows, latestShow, confirmListeners, cancelListeners, called>>
    /\ UNCHANGED beyondDialog

DialogNext ==
    \/ \E withConfirm \in BOOLEAN, withCancel \in BOOLEAN :
           ConfirmDialogShow(withConfirm, withCancel)
    \/ DialogConfirmClick
    \/ DialogCancelClick
    \/ DialogDismiss

DialogSpec == Init /\ [][DialogNext]_vars

(***************************************************************************)
(* C32                                                                     *)
(***************************************************************************)
\* C32: after any number of ConfirmDialog.show calls, a click on the
\* confirm button hides the dialog and invokes the onConfirm of the most
\* recent show once, if it was given one, and no other callback; a click on
\* the cancel button hides the dialog and invokes no onConfirm, and only the
\* onCancel of the most recent show.
C32_OnlyLatestOnConfirm ==
    [][ /\ lastClick' = "confirm" =>
               /\ ~dialogActive'
               /\ called' = IF latestShow.onConfirm
                            THEN Append(called, [show |-> shows, kind |-> "onConfirm"])
                            ELSE called
        /\ lastClick' = "cancel" =>
               /\ ~dialogActive'
               /\ called' = IF latestShow.onCancel
                            THEN Append(called, [show |-> shows, kind |-> "onCancel"])
                            ELSE called
      ]_vars

\* The dialog was shown three times with an onConfirm, dismissed the
\* first two times, and the confirm button clicked: the onConfirm of the
\* third show ran, once, and no other callback.
C32_Witness ==
    /\ shows = 3
    /\ lastClick = "confirm"
    /\ ~dialogActive
    /\ called = << [show |-> 3, kind |-> "onConfirm"] >>

(***************************************************************************)
(* C33                                                                     *)
(***************************************************************************)
\* Delete mode is active from enterDeleteMode to exitDeleteMode or the next
\* page load: the key entered is stored.
DeleteModeActive == enteredDeleteKey # Null

\* C33: while delete mode is active the delete-selected button is enabled
\* exactly when at least one item checkbox is checked, and every step that
\* leaves delete mode leaves no stored delete key and no checkbox checked.
C33_ButtonFollowsCheckboxes ==
    /\ [](DeleteModeActive => (~deleteSelectedDisabled <=> checked # {}))
    /\ [][ (DeleteModeActive /\ ~DeleteModeActive') =>
               (enteredDeleteKey' = Null /\ checked' = {}) ]_vars

\* Delete mode is active after a delete request of the page was made,
\* with no box checked and the button disabled.
C33_Witness ==
    /\ DeleteModeActive
    /\ checked = {}
    /\ deleteSelectedDisabled
    /\ deleteRequests # << >>

(***************************************************************************)
(* C34                                                                     *)
(***************************************************************************)
\* C34: a /api/create-folder request is sent only with a folder name that
\* is the trimmed input and not empty and with a key that is not empty;
\* its protection_password is null exactly when the protection checkbox is
\* unchecked, and is the typed password, not empty, when it is checked.
\* Every step that unchecks the checkbox leaves the protection password
\* empty.
C34_CreateFolderRequestValid ==
    /\ [][ Len(createFolderRequests') > Len(createFolderRequests) =>
               LET request == createFolderRequests'[Len(createFolderRequests')]
               IN  /\ request.folder_name = Trim(newFolderName)
                   /\ request.folder_name # EmptyStr
                   /\ request.key # EmptyStr
                   /\ request.protection_password = Null <=> ~enableFolderProtection
                   /\ enableFolderProtection =>
                          /\ request.protection_password = folderProtectionPassword
                          /\ request.protection_password # EmptyStr ]_vars
    /\ [][ (enableFolderProtection /\ ~enableFolderProtection') =>
               folderProtectionPassword' = EmptyStr ]_vars

\* A request for a folder without protection is awaited: it carries null,
\* and the form holds no protection password.
C34_Witness ==
    /\ createFolderRequests # << >>
    /\ createFolderRequests[1].protection_password = Null
    /\ createFolderRequests[1].folder_name = <<"n">>
    /\ ~enableFolderProtection
    /\ folderProtectionPassword = EmptyStr
    /\ createFolderError = "none"

(***************************************************************************)
(* C35                                                                     *)
(***************************************************************************)
\* C35: with loaded of a progress event never above the size of its file,
\* every overallPercent a batch reports is an integer from 0 to 100; the
\* step that ends the last transfer of a batch makes the final report, and
\* that report is 100 when the total size of the batch is positive,
\* however many of its files failed.
C35_PercentInRange ==
    /\ [](progress.overallPercent \in 0..100)
    /\ [][ (phase = "transfer" /\ phase' # "transfer") =>
               /\ progress'.label = "Complete"
               /\ batch.grandTotal > 0 => progress'.overallPercent = 100 ]_vars

\* A batch of two files of 40 bytes in all finished with both files
\* failed: its final report is 100.
C35_Witness ==
    /\ phase = "finished"
    /\ Len(batch.files) = 2
    /\ batch.grandTotal = 40
    /\ successCount = 0
    /\ failCount = 2
    /\ progress.label = "Complete"
    /\ progress.overallPercent = 100

(***************************************************************************)
(* FileBrowser.setupSearchForm, lines 25-61: the submit listener of the    *)
(* search form.  The URLSearchParams of line 42 is a record of its three   *)
(* possible entries; the URL the window is sent to is kept in its parts,   *)
(* the path and the entries of the query.                                  *)
(***************************************************************************)
\* The pages the form is on, what the user may type into its two inputs,
\* and the name of the button that submits it: "other" is a submitter of
\* another name, or none.
Pathnames == { <<"/">>, <<"/", "d">>, <<"/", "d", "/">> }

SearchTerms == { EmptyStr, <<" ">>, <<"f">> }

Submitters == { "submit_smart", "submit_filter", "other" }

\* An entry URLSearchParams does not have.
Absent == <<"absent">>

NoParams == [smart_query |-> Absent, search |-> Absent, recursive |-> Absent]

\* Whether the submit takes the branch of line 46: the test of line 45.
UsesSmartQuery_AnySubmitter(enabled, smartTerm, submitter) ==
    enabled /\ ~Falsy(smartTerm)

UsesSmartQuery(enabled, smartTerm, submitter) ==
    /\ enabled
    /\ ~Falsy(smartTerm)
    /\ (submitter = "submit_smart" \/ submitter # "submit_filter")

\* The params of lines 42-50.
ParamsOf(enabled, filenameTerm, smartTerm, isRecursive, submitter) ==
    IF UsesSmartQuery(enabled, smartTerm, submitter)
    THEN [NoParams EXCEPT !.smart_query = smartTerm]
    ELSE [NoParams EXCEPT
              !.search = IF ~Falsy(filenameTerm) THEN filenameTerm ELSE Absent,
              !.recursive = IF isRecursive THEN <<"true">> ELSE <<"false">>]

\* The test of line 52.
GoesToBarePath(filenameTerm, smartTerm, submitter) ==
    /\ Falsy(filenameTerm)
    /\ Falsy(smartTerm)
    /\ submitter # "submit_smart"
    /\ submitter # "submit_filter"

\* navigationTarget.replace(/\/$/, '') + '/', line 58.
WithOneSlash(path) ==
    (IF path # << >> /\ path[Len(path)] = "/"
     THEN SubSeq(path, 1, Len(path) - 1)
     ELSE path) \o <<"/">>

\* FileBrowser.init, lines 11-13: the page is loaded at a path, with or
\* without semantic search.
SearchPageLoad(enabled, path) ==
    /\ semanticSearchEnabled' = enabled
    /\ pathname' = path
    /\ searchInput' = EmptyStr
    /\ smartSearchInput' = EmptyStr
    /\ recursiveCheckbox' = FALSE
    /\ submission' = NoSubmission
    /\ UNCHANGED beyondSearch

\* The page is there until a submit has sent the window away.
SearchPageShown == submission = NoSubmission

TypeSearch(text) ==
    /\ SearchPageShown
    /\ searchInput' = text
    /\ UNCHANGED <<semanticSearchEnabled, pathname, smartSearchInput,
                   recursiveCheckbox, submission>>
    /\ UNCHANGED beyondSearch

TypeSmartSearch(text) ==
    /\ SearchPageShown
    /\ smartSearchInput' = text
    /\ UNCHANGED <<semanticSearchEnabled, pathname, searchInput, recursiveCheckbox,
                   submission>>
    /\ UNCHANGED beyondSearch

ChangeRecursive ==
    /\ SearchPageShown
    /\ recursiveCheckbox' = ~recursiveCheckbox
    /\ UNCHANGED <<semanticSearchEnabled, pathname, searchInput, smartSearchInput,
                   submission>>
    /\ UNCHANGED beyondSearch

\* The submit listener, lines 33-60.
SubmitSearch(submitter) ==
    /\ SearchPageShown
    /\ LET filenameTerm == Trim(searchInput)
           smartTerm == Trim(smartSearchInput)
       IN  submission' =
               IF GoesToBarePath(filenameTerm, smartTerm, submitter)
               THEN [submitter |-> submitter, kind |-> "bare", path |-> pathname,
                     params |-> NoParams]
               ELSE [submitter |-> submitter, kind |-> "query",
                     path |-> WithOneSlash(pathname),
                     params |-> ParamsOf(semanticSearchEnabled, filenameTerm, smartTerm,
                                         recursiveCheckbox, submitter)]
    /\ UNCHANGED <<semanticSearchEnabled, pathname, searchInput, smartSearchInput,
                   recursiveCheckbox>>
    /\ UNCHANGED beyondSearch

SearchNext ==
    \/ \E enabled \in BOOLEAN, path \in Pathnames : SearchPageLoad(enabled, path)
    \/ \E text \in SearchTerms : TypeSearch(text)
    \/ \E text \in SearchTerms : TypeSmartSearch(text)
    \/ ChangeRecursive
    \/ \E submitter \in Submitters : SubmitSearch(submitter)

SearchSpec == Init /\ [][SearchNext]_vars

(***************************************************************************)
(* C36                                                                     *)
(***************************************************************************)
\* The condition the claim gives for smart_query: semantic search is
\* enabled, the smart term is not empty, and the submitter is the smart
\* button or is not the filter button.
SmartExpected ==
    /\ semanticSearchEnabled
    /\ Trim(smartSearchInput) # EmptyStr
    /\ (submission.submitter = "submit_smart" \/ submission.submitter # "submit_filter")

\* Both terms are empty and the submitter is neither named button.
BareExpected ==
    /\ Trim(searchInput) = EmptyStr
    /\ Trim(smartSearchInput) = EmptyStr
    /\ submission.submitter = "other"

\* C36: a submit of the search form with both terms empty and no named
\* submitter sends the window to the bare current path.  Every other
\* submit sends it to a URL that never carries smart_query together with
\* search or recursive: it carries smart_query, the smart term, and nothing
\* else exactly when semantic search is enabled, the smart term is not
\* empty and the submitter is the smart button or not the filter button;
\* otherwise it carries recursive, and search exactly for a filename term
\* that is not empty.
C36_SearchUrl ==
    submission # NoSubmission =>
        IF BareExpected
        THEN /\ submission.kind = "bare"
             /\ submission.path = pathname
             /\ submission.params = NoParams
        ELSE /\ submission.kind = "query"
             /\ ~(/\ submission.params.smart_query # Absent
                  /\ \/ submission.params.search # Absent
                     \/ submission.params.recursive # Absent)
             /\ submission.params.smart_query # Absent <=> SmartExpected
             /\ SmartExpected => submission.params.smart_query = Trim(smartSearchInput)
             /\ ~SmartExpected =>
                    /\ submission.params.recursive =
                           (IF recursiveCheckbox THEN <<"true">> ELSE <<"false">>)
                    /\ submission.params.search # Absent <=> Trim(searchInput) # EmptyStr
                    /\ Trim(searchInput) # EmptyStr =>
                           submission.params.search = Trim(searchInput)

\* With semantic search enabled, a form holding both a filename term and a
\* smart term was submitted without a named button from a path that ends
\* in a slash: the URL carries smart_query alone.
C36_Witness ==
    /\ submission # NoSubmission
    /\ submission.submitter = "other"
    /\ submission.kind = "query"
    /\ semanticSearchEnabled
    /\ searchInput = <<"f">>
    /\ recursiveCheckbox
    /\ pathname = <<"/", "d", "/">>
    /\ submission.path = <<"/", "d", "/">>
    /\ submission.params.smart_query = <<"f">>
    /\ submission.params.search = Absent
    /\ submission.params.recursive = Absent

=============================================================================
